---- MODULE Spec2Model ----
(***************************************************************************)
(* A model of app.py: the media catalog, the four background jobs (scan,   *)
(* thumbnail-fill, transcode, cleanup) with their locks and status         *)
(* records, the process-wide write mutex, the file-system notifications    *)
(* and the user-action requests.                                           *)
(*                                                                         *)
(* Abstractions.  A path is a string of a fixed small media tree; what the *)
(* code computes from a path's text (directory, extension, leading dot) is *)
(* tabulated.  The descriptive and technical values extracted from a file  *)
(* are abstracted to the file's content version.  A SQLAlchemy session is  *)
(* a set of pending operations applied to the catalog by the commit;       *)
(* an UPDATE writes only the columns whose value changed, and addresses    *)
(* its row by id.  Statements after a lock release that only print are     *)
(* left out.  Thread creation is assumed to succeed.                       *)
(***************************************************************************)
EXTENDS Naturals, Integers, Sequences, FiniteSets, TLC

\* ------------------------------------------------------------- bounds
MaxFsOps == 1
MaxUserOps == 1
MaxJobStarts == 1
MaxSidecarFsOps == 2
MaxTransStarts == 2
MaxFaults == 1
MaxTails == 1
MaxRequestId == 2
MaxRows == 3

\* ------------------------------------------------- program constants
MinEngagement == 4
BatchSize == 50
per_page == 30

\* ------------------------------------------------------ the media tree
NULL == "NULL"
RootDir == "/v"
SubDir == "/v/d"
Sentinel == "/v/d/vd21_hide"
MediaFiles == {"/v/a.mp4", "/v/d/b.mp4"}
\* a hidden file: its name starts with a dot
Hidden == "/v/.c.mp4"
Entries == MediaFiles \cup {Sentinel, Hidden}
\* an image next to /v/a.mp4 that shares its base name
Sidecar == "/v/a.jpg"

\* os.path.dirname of an entry
DirName(e) == IF e \in {"/v/a.mp4", Hidden, Sidecar} THEN RootDir ELSE SubDir
\* os.path.basename of an entry
BaseName(e) == CASE e = "/v/a.mp4" -> "a.mp4"
                 [] e = "/v/d/b.mp4" -> "b.mp4"
                 [] e = Hidden -> ".c.mp4"
                 [] e = Sidecar -> "a.jpg"
                 [] OTHER -> "vd21_hide"
\* os.path.splitext(filename)[1].lower()
FileExt(e) == CASE e \in MediaFiles \cup {Hidden} -> ".mp4"
                [] e = Sidecar -> ".jpg"
                [] OTHER -> ""
video_extensions == {".mkv", ".mp4", ".avi", ".mov", ".wmv", ".flv", ".webm"}
image_extensions == {".jpg", ".jpeg", ".png", ".tbn", ".gif", ".webp", ".bmp", ".tiff"}
\* filename.startswith('.')
StartsWithDot(e) == e = Hidden
\* the sub-directories os.walk finds in a directory (none of them hidden)
SubDirsOf(d) == IF d = RootDir THEN <<SubDir>> ELSE <<>>
\* the order in which a directory's entries are listed
WalkOrder == <<"/v/a.mp4", Sidecar, Hidden, "/v/d/b.mp4", Sentinel>>

Kinds == {"scan", "thumb", "trans", "clean"}
Playlists == {1}

VARIABLES
  disk,        \* the entries present under the media root
  fver,        \* content version of each media file
  optFile,     \* the optimized copy at a file's derived path: none, partial, good
  thumbFile,   \* whether the automatic thumbnail exists at a file's derived path
  catalog,     \* the Video table: id -> row
  members,     \* the PlaylistItem table: set of <<playlist_id, video_id>>
  lock,        \* SCAN_LOCK, thumbnail_generation_lock, TRANSCODE_LOCK, CLEANUP_LOCK
  status,      \* SCAN_STATUS, THUMBNAIL_STATUS, TRANSCODE_STATUS, CLEANUP_STATUS
  dbMutex,     \* DB_WRITE_LOCK: "free" or the thread holding it
  booted,      \* initialize_database has run
  scan,        \* the thread running _scan_videos_task
  clean,       \* the thread running _cleanup_library_task
  thumb,       \* the thread running _generate_thumbnails_task up to its lock release
  thumbTails,  \* threads of _generate_thumbnails_task past the release, before the last status update
  trans,       \* the thread running _transcode_video_task
  running,     \* the number of threads executing each kind's job body
  outcome,     \* how each kind's latest job body went: run, ok, exc (an escaped exception), tool
  budget,      \* what the environment may still do
  lastReq,     \* the last rejected job-control request
  call,        \* the pure computation under study and its arguments
  ret,         \* its result, once computed
  baseline     \* the catalog as the last completed full scan left it (for observation)

vars == <<disk, fver, optFile, thumbFile, catalog, members, lock, status, dbMutex,
          booted, scan, clean, thumb, thumbTails, trans, running, outcome, budget, lastReq,
          call, ret, baseline>>
pureVars == <<call, ret>>
fsVars == <<disk, fver, optFile, thumbFile>>
dbVars == <<catalog, members>>

\* ------------------------------------------------------------ helpers
Max(S) == CHOOSE x \in S : \A y \in S : y <= x
Range(f) == {f[x] : x \in DOMAIN f}
SeqToSet(s) == {s[i] : i \in 1..Len(s)}
EmptyFn == [x \in {} |-> NULL]

Rows == Range(catalog)
Paths(cat) == {cat[i].path : i \in DOMAIN cat}
Status(phase, msg) == [phase |-> phase, msg |-> msg]
\* os.path.exists of a media file
Exists(p) == p \in disk

\* get_thumbnail_path_for_video / get_transcoded_path_for_video: the derived
\* locations are keyed by the source path, so they are tabulated by path:
\* thumbFile[p] and optFile[p] are the files at those locations.
ThumbExists(p) == thumbFile[p]
OptExists(p) == optFile[p] # "none"

\* SQLite assigns an INTEGER PRIMARY KEY as the largest id in the table plus one
NextId(cat) == IF DOMAIN cat = {} THEN 1 ELSE Max(DOMAIN cat) + 1

\* thumbnail_file_path of a scanned file: none for an image; for a video the image of
\* the same base name next to it ("local"), or else the generated thumbnail ("auto")
AssetThumb(p) ==
  IF FileExt(p) \notin video_extensions THEN NULL
  ELSE IF p = "/v/a.mp4" /\ Sidecar \in disk THEN "local"
  ELSE IF ThumbExists(p) THEN "auto" ELSE NULL

\* Video(...) as _scan_videos_task builds it for a file that is not in db_cache
NewVideo(p) ==
  [id |-> 0, path |-> p,
   meta |-> IF p \in MediaFiles THEN fver[p] ELSE 0,
   tech |-> IF p \in MediaFiles THEN fver[p] ELSE 0,
   thumb |-> AssetThumb(p),
   trans |-> IF p \in MediaFiles /\ OptExists(p) THEN "opt" ELSE NULL,
   \* is_short as the probe computes it: /v/d/b.mp4 is the one portrait video
   short |-> (p = "/v/d/b.mp4"),
   fav |-> FALSE, wl |-> FALSE, watched |-> 0, lastw |-> NULL, vtype |-> NULL]

\* an update branch whose metadata would differ from what the insert branch extracts
ExistingVideoUpdateDiffers(p) ==
  [meta |-> (IF p \in MediaFiles THEN fver[p] ELSE 0) + 1, thumb |-> AssetThumb(p)]

\* what the update branch of _scan_videos_task assigns to an existing row
ExistingVideoUpdate(p) ==
  [meta |-> IF p \in MediaFiles THEN fver[p] ELSE 0, thumb |-> AssetThumb(p)]

\* the row as the update branch leaves the loaded object
UpdatedObject(row, u) ==
  [row EXCEPT !.meta = u.meta, !.thumb = IF u.thumb # NULL THEN u.thumb ELSE @]

\* an UPDATE that would write every column of the session's object
WriteWholeObject(cur, loaded, obj) == obj

\* the columns of a flushed UPDATE: those whose value differs from the loaded one
WriteChanged(cur, loaded, obj) ==
  [cur EXCEPT !.meta = IF obj.meta # loaded.meta THEN obj.meta ELSE @,
              !.thumb = IF obj.thumb # loaded.thumb THEN obj.thumb ELSE @,
              !.trans = IF obj.trans # loaded.trans THEN obj.trans ELSE @]

\* a session's pending UPDATEs: objs is a set of <<loaded, object>> pairs
Dirty(objs) == {o \in objs : o[1] # o[2]}
\* StaleDataError: an UPDATE by id that matches no row
Stale(cat, objs) == \E o \in Dirty(objs) : o[1].id \notin DOMAIN cat
FlushUpdates(cat, objs) ==
  [i \in DOMAIN cat |->
     IF \E o \in Dirty(objs) : o[1].id = i
     THEN LET o == CHOOSE o \in Dirty(objs) : o[1].id = i
          IN WriteChanged(cat[i], o[1], o[2])
     ELSE cat[i]]

\* a session's pending INSERTs, flushed in the order they were added
RECURSIVE FlushInserts(_, _)
FlushInserts(cat, ins) ==
  IF ins = <<>> THEN cat
  ELSE LET id == NextId(cat)
           row == [Head(ins) EXCEPT !.id = id]
       IN FlushInserts([i \in DOMAIN cat \cup {id} |-> IF i = id THEN row ELSE cat[i]],
                       Tail(ins))
\* IntegrityError: video_path is unique
Duplicate(cat, ins) ==
  \/ \E i \in 1..Len(ins) : ins[i].path \in Paths(cat)
  \/ \E i, j \in 1..Len(ins) : i # j /\ ins[i].path = ins[j].path

\* ------------------------------------------------------- initial state
\* the files and the count of user actions left, as a scan may remember them
Env ==
  [disk |-> disk, fver |-> fver, thumbFile |-> thumbFile, optFile |-> optFile,
   user |-> budget.user]
\* no full scan has completed; on: whether the next two full scans are observed
NoBaseline(on) ==
  [on |-> on, set |-> FALSE, cat |-> EmptyFn, start |-> EmptyFn, end |-> EmptyFn]
\* no pure computation is under study
NoCall == [fn |-> "none"]
\* its result is not computed yet
NoRet == [done |-> FALSE]
\* its result
Returned(v) == [done |-> TRUE, val |-> v]
\* nothing is studied apart and no scan is recorded
Unobserved == call = NoCall /\ ret = NoRet /\ baseline = NoBaseline(FALSE)
ScanIdle ==
  [pc |-> "idle", full |-> FALSE, chain |-> FALSE, cache |-> EmptyFn,
   found |-> {}, dirs |-> <<>>, todo |-> <<>>, ins |-> <<>>, upd |-> EmptyFn,
   added |-> 0, updated |-> 0, extracted |-> {}, statFailed |-> {},
   ret |-> "", del |-> {}, deleted |-> 0, pruned |-> {}, raced |-> {}, quiet |-> TRUE,
   env |-> EmptyFn]
CleanIdle ==
  [pc |-> "idle", found |-> {}, dirs |-> <<>>, del |-> {}, deleted |-> 0]
\* made: the ids whose frame this run extracted and wrote (kept for observation only)
ThumbIdle == [pc |-> "idle", todo |-> <<>>, objs |-> {}, generated |-> 0, made |-> {}]
TransIdle == [pc |-> "idle", vid |-> 0, obj |-> <<>>]

\* a row as an earlier run of the service left it in app.db
StoredRow(id, p) ==
  [id |-> id, path |-> p, meta |-> 0, tech |-> 0, thumb |-> NULL, trans |-> NULL,
   short |-> FALSE, fav |-> FALSE, wl |-> FALSE, watched |-> 0, lastw |-> NULL, vtype |-> NULL]
StoredCatalogs ==
  { EmptyFn,
    [i \in {1, 2} |-> IF i = 1 THEN StoredRow(1, "/v/a.mp4") ELSE StoredRow(2, "/v/d/b.mp4")] }

InitWith(fs, user, jobs, faults) ==
  /\ disk = MediaFiles
  /\ fver = [p \in MediaFiles |-> 0]
  /\ optFile = [p \in MediaFiles |-> "none"]
  /\ thumbFile = [p \in MediaFiles |-> FALSE]
  /\ catalog \in StoredCatalogs
  /\ members = {}
  /\ lock = [k \in Kinds |-> FALSE]
  /\ status = [k \in Kinds |-> Status("idle", "")]
  /\ dbMutex = "free"
  /\ booted = FALSE
  /\ scan = ScanIdle
  /\ clean = CleanIdle
  /\ thumb = ThumbIdle
  /\ thumbTails = 0
  /\ trans = TransIdle
  /\ running = [k \in Kinds |-> 0]
  /\ outcome = [k \in Kinds |-> "none"]
  /\ budget = [fs |-> fs, user |-> user, jobs |-> jobs, faults |-> faults]
  /\ lastReq = "none"

\* threading.Thread(target=_scan_videos_task, args=(full_scan, auto_chain)).start()
StartScanThread(full, chain) ==
  /\ scan' = [ScanIdle EXCEPT !.pc = "start", !.full = full, !.chain = chain]
  /\ running' = [running EXCEPT !["scan"] = @ + 1]
  /\ outcome' = [outcome EXCEPT !["scan"] = "run"]

\* initialize_database: an empty catalog starts a full, chained scan
InitializeDatabase ==
  /\ ~booted
  /\ booted' = TRUE
  /\ IF Cardinality(DOMAIN catalog) = 0 /\ ~lock["scan"]
     THEN /\ lock' = [lock EXCEPT !["scan"] = TRUE]
          /\ StartScanThread(TRUE, TRUE)
     ELSE UNCHANGED <<lock, scan, running, outcome>>
  /\ UNCHANGED <<fsVars, dbVars, status, dbMutex, clean, thumb, thumbTails, trans,
                 budget, lastReq, pureVars, baseline>>

\* ------------------------------------------------------ the tree walk
\* the entries os.walk lists in directory d
Listing(d) == SelectSeq(WalkOrder, LAMBDA e : e \in disk /\ DirName(e) = d)
\* 'vd21_hide' in filenames
HasSentinel(listing) == \E i \in 1..Len(listing) : BaseName(listing[i]) = "vd21_hide"
\* not hidden, and a video or an image by its extension
Recognized(e) ==
  /\ ~StartsWithDot(e)
  /\ (FileExt(e) \in video_extensions \/ FileExt(e) \in image_extensions)
\* the directories still to walk after listing the first of dirs (topdown)
WalkDirs(dirs, listing) ==
  IF HasSentinel(listing) THEN Tail(dirs) ELSE SubDirsOf(Head(dirs)) \o Tail(dirs)
\* the files of a listed directory that the loop body will see
WalkFiles(listing) == IF HasSentinel(listing) THEN <<>> ELSE listing

\* ------------------------------------------------------------ pruning
\* _prune_missing_videos: the rows whose path is not in found_video_paths
PruneTargets(found) ==
  {[id |-> r.id, path |-> r.path, thumb |-> r.thumb, trans |-> r.trans] :
     r \in {x \in Rows : x.path \notin found}}
\* os.remove of the transcoded file of every row to delete
PruneOptFiles(del) ==
  [p \in MediaFiles |->
     IF \E r \in del : r.path = p /\ r.trans # NULL THEN "none" ELSE optFile[p]]
\* os.remove of the thumbnail of every row to delete
PruneThumbFiles(del) ==
  [p \in MediaFiles |->
     IF \E r \in del : r.path = p /\ r.thumb = "auto" THEN FALSE ELSE thumbFile[p]]
\* os.remove of the thumbnail of a row to delete, when it is the image next to the video
PruneLocalFiles(del) ==
  IF \E r \in del : r.thumb = "local" THEN disk \ {Sidecar} ELSE disk
\* a prune that would keep the rows and clear their thumbnail column
PruneRowsUnlinks(cat, del) ==
  [i \in DOMAIN cat |-> IF i \in {r.id : r \in del} THEN [cat[i] EXCEPT !.thumb = NULL]
                                                     ELSE cat[i]]
\* delete(Video).where(Video.id == id), for every row to delete
PruneRows(cat, del) ==
  [i \in DOMAIN cat \ {r.id : r \in del} |-> cat[i]]
\* delete(PlaylistItem).where(PlaylistItem.video_id.in_(ids))
PruneMembers(mem, del) == {m \in mem : m[2] \notin {r.id : r \in del}}

\* ------------------------------------------------- _scan_videos_task
WalkDone(s) == s.pc = "walk" /\ s.todo = <<>> /\ s.dirs = <<>>
\* past the walk and the final commit
AtTail(s) == s.pc = "tail" \/ (WalkDone(s) /\ s.added + s.updated = 0)

\* the cleanup thread that on_deleted starts
StartCleanThread ==
  /\ clean' = [CleanIdle EXCEPT !.pc = "start"]
  /\ running' = [running EXCEPT !["clean"] = @ + 1]
  /\ outcome' = [outcome EXCEPT !["clean"] = "run"]

\* the thumbnail thread the auto-chain starts
StartThumbThread ==
  /\ thumb' = [ThumbIdle EXCEPT !.pc = "start"]
  /\ running' = [running EXCEPT !["thumb"] = @ + 1]
  /\ outcome' = [outcome EXCEPT !["thumb"] = "run"]

ScanBegin ==
  /\ scan.pc = "start"
  /\ status' = [status EXCEPT !["scan"] = Status("scanning", "start")]
  /\ scan' = [scan EXCEPT !.pc = "walk",
                          !.cache = [p \in Paths(catalog) |-> CHOOSE r \in Rows : r.path = p],
                          !.dirs = <<RootDir>>,
                          !.env = IF baseline.on THEN Env ELSE EmptyFn]
  /\ UNCHANGED <<fsVars, dbVars, lock, dbMutex, booted, clean, thumb, thumbTails, trans,
                 running, outcome, budget, lastReq, pureVars, baseline>>

ScanListDir ==
  /\ scan.pc = "walk" /\ scan.todo = <<>> /\ scan.dirs # <<>>
  /\ LET listing == Listing(Head(scan.dirs))
     IN scan' = [scan EXCEPT !.todo = WalkFiles(listing),
                             !.dirs = WalkDirs(scan.dirs, listing)]
  /\ UNCHANGED <<fsVars, dbVars, lock, status, dbMutex, booted, clean, thumb, thumbTails,
                 trans, running, outcome, budget, lastReq, pureVars, baseline>>

\* an upsert that would not look the path up and stage an INSERT for every file
UpsertAlwaysAdds(s, f) ==
  [s EXCEPT !.ins = Append(@, NewVideo(f)), !.added = @ + 1]

\* the DB add/update of one file
Upsert(s, f) ==
  IF f \in DOMAIN s.cache
  THEN [s EXCEPT !.upd = [p \in DOMAIN s.upd \cup {f} |->
                            IF p = f THEN UpdatedObject(s.cache[f], ExistingVideoUpdate(f))
                            ELSE s.upd[p]],
                 !.updated = @ + 1]
  ELSE [s EXCEPT !.ins = Append(@, NewVideo(f)), !.added = @ + 1]

\* a skip that would not look at the scan's mode
SkipKnownInEveryMode(s, f) == f \in DOMAIN s.cache

\* if not full_scan and video_file_path in db_cache
SkipKnown(s, f) == ~s.full /\ f \in DOMAIN s.cache

\* a loop body that would count a file as found only after reading its size and time
ScanOneCountsAfterStat(s, f) ==
  IF ~Recognized(f) THEN s
  ELSE IF SkipKnown(s, f) THEN [s EXCEPT !.found = @ \cup {f}]
       ELSE IF ~Exists(f) THEN [s EXCEPT !.statFailed = @ \cup {f}]
       ELSE LET s2 == Upsert([s EXCEPT !.found = @ \cup {f}, !.extracted = @ \cup {f}], f)
            IN IF (s2.added + s2.updated) % BatchSize = 0
               THEN [s2 EXCEPT !.pc = "batch"] ELSE s2

\* the loop body for one listed file
ScanOne(s, f) ==
  IF ~Recognized(f) THEN s
  ELSE LET s1 == [s EXCEPT !.found = @ \cup {f}]
       IN IF SkipKnown(s1, f) THEN s1
          ELSE IF ~Exists(f) THEN [s1 EXCEPT !.statFailed = @ \cup {f}]
          ELSE LET s2 == Upsert([s1 EXCEPT !.extracted = @ \cup {f}], f)
               IN IF (s2.added + s2.updated) % BatchSize = 0
                  THEN [s2 EXCEPT !.pc = "batch"] ELSE s2

ScanFile ==
  /\ scan.pc = "walk" /\ scan.todo # <<>>
  /\ scan' = ScanOne([scan EXCEPT !.todo = Tail(@)], Head(scan.todo))
  /\ UNCHANGED <<fsVars, dbVars, lock, status, dbMutex, booted, clean, thumb, thumbTails,
                 trans, running, outcome, budget, lastReq, pureVars, baseline>>

\* the columns of a row that only the user-action routes assign
UserState(r) ==
  [fav |-> r.fav, wl |-> r.wl, watched |-> r.watched, lastw |-> r.lastw,
   short |-> r.short, vtype |-> r.vtype]

\* the paths whose pending UPDATE meets a row that a user action changed after
\* the scan loaded it (kept for observation only)
RacedUpdates(s, cat) ==
  {p \in DOMAIN s.upd :
     /\ s.upd[p] # s.cache[p]
     /\ s.cache[p].id \in DOMAIN cat
     /\ UserState(cat[s.cache[p].id]) # UserState(s.cache[p])}

\* the session's pending UPDATEs of the scan, as <<loaded, object>> pairs
ScanObjs(s) == {<<s.cache[p], s.upd[p]>> : p \in DOMAIN s.upd}

\* the except branch of _scan_videos_task, then its finally: roll back, report
\* the error, release SCAN_LOCK
ScanExceptKeepsLock ==
  /\ status' = [status EXCEPT !["scan"] = Status("error", "exc")]
  /\ lock' = lock
  /\ running' = [running EXCEPT !["scan"] = @ - 1]
  /\ outcome' = [outcome EXCEPT !["scan"] = "exc"]
  /\ scan' = ScanIdle

ScanExcept ==
  /\ status' = [status EXCEPT !["scan"] = Status("error", "exc")]
  /\ lock' = [lock EXCEPT !["scan"] = FALSE]
  /\ running' = [running EXCEPT !["scan"] = @ - 1]
  /\ outcome' = [outcome EXCEPT !["scan"] = "exc"]
  /\ scan' = ScanIdle

\* with DB_WRITE_LOCK: (the scan's commits, batch or final)
ScanCommitBegin ==
  /\ \/ WalkDone(scan) /\ scan.added + scan.updated > 0
     \/ scan.pc = "batch"
  /\ dbMutex = "free"
  /\ dbMutex' = "scan"
  /\ scan' = [scan EXCEPT !.pc = "committing",
                          !.ret = IF scan.pc = "batch" THEN "walk" ELSE "tail"]
  /\ UNCHANGED <<fsVars, dbVars, lock, status, booted, clean, thumb, thumbTails, trans,
                 running, outcome, budget, lastReq, pureVars, baseline>>

\* db.session.commit() of the scan; a failing flush escapes to the except branch
ScanCommitEnd ==
  /\ scan.pc = "committing"
  /\ dbMutex' = "free"
  /\ IF Stale(catalog, ScanObjs(scan)) \/ Duplicate(catalog, scan.ins)
     THEN ScanExcept /\ UNCHANGED catalog
     ELSE /\ catalog' = FlushInserts(FlushUpdates(catalog, ScanObjs(scan)), scan.ins)
          /\ scan' = [scan EXCEPT !.pc = scan.ret, !.ins = <<>>, !.upd = EmptyFn,
                                  !.raced = @ \cup RacedUpdates(scan, catalog)]
          /\ UNCHANGED <<lock, status, running, outcome>>
  /\ UNCHANGED <<fsVars, members, booted, clean, thumb, thumbTails, trans, budget, lastReq, pureVars, baseline>>

\* if full_scan: _prune_missing_videos(found_video_paths), up to its commit
ScanPruneSelect ==
  /\ AtTail(scan) /\ scan.full
  /\ status' = [status EXCEPT !["scan"].msg = "pruning"]
  /\ LET del == PruneTargets(scan.found)
     IN IF del = {}
        THEN /\ scan' = [scan EXCEPT !.pc = "finish"]
             /\ UNCHANGED <<disk, optFile, thumbFile, lock, clean, running, outcome>>
        ELSE /\ scan' = [scan EXCEPT !.pc = "prune_commit", !.del = del,
                                     !.deleted = Cardinality(del)]
             /\ optFile' = PruneOptFiles(del)
             /\ thumbFile' = PruneThumbFiles(del)
             /\ disk' = PruneLocalFiles(del)
             \* the observer reports the removal of a watched file: on_deleted
             /\ IF disk' # disk /\ ~lock["clean"]
                THEN /\ lock' = [lock EXCEPT !["clean"] = TRUE]
                     /\ StartCleanThread
                ELSE UNCHANGED <<lock, clean, running, outcome>>
  /\ UNCHANGED <<fver, dbVars, dbMutex, booted, thumb, thumbTails,
                 trans, budget, lastReq, pureVars, baseline>>

ScanPruneCommitBegin ==
  /\ scan.pc = "prune_commit"
  /\ dbMutex = "free"
  /\ dbMutex' = "scan"
  /\ scan' = [scan EXCEPT !.pc = "pruning"]
  /\ UNCHANGED <<fsVars, dbVars, lock, status, booted, clean, thumb, thumbTails, trans,
                 running, outcome, budget, lastReq, pureVars, baseline>>

\* the commit of the prune; when it raises, the prune rolls back and returns
ScanPruneCommitEnd ==
  /\ scan.pc = "pruning"
  /\ dbMutex' = "free"
  /\ \/ /\ catalog' = PruneRows(catalog, scan.del)
        /\ members' = PruneMembers(members, scan.del)
        /\ scan' = [scan EXCEPT !.pc = "finish", !.del = {},
                                !.pruned = {r.id : r \in scan.del}]
        /\ UNCHANGED budget
     \/ /\ budget.faults > 0
        /\ budget' = [budget EXCEPT !.faults = @ - 1]
        /\ scan' = [scan EXCEPT !.pc = "finish", !.del = {}]
        /\ UNCHANGED dbVars
  /\ UNCHANGED <<fsVars, lock, status, booted, clean, thumb, thumbTails, trans, running, outcome,
                 lastReq, pureVars, baseline>>

\* a scan that would chain whatever it counted
AutoChainAlways(s) == s.chain
\* if auto_chain and (added_count > 0 or updated_count > 0)
AutoChain(s) == s.chain /\ (s.added > 0 \/ s.updated > 0)

\* the end of a scan: idle status, the auto-chain, the lock release
ScanFinish ==
  /\ (AtTail(scan) /\ ~scan.full) \/ scan.pc = "finish"
  /\ IF AutoChain(scan) /\ ~lock["thumb"]
     THEN /\ lock' = [lock EXCEPT !["scan"] = FALSE, !["thumb"] = TRUE]
          /\ thumb' = [ThumbIdle EXCEPT !.pc = "start"]
          /\ running' = [running EXCEPT !["scan"] = @ - 1, !["thumb"] = @ + 1]
          /\ outcome' = [outcome EXCEPT !["scan"] = "ok", !["thumb"] = "run"]
     ELSE /\ lock' = [lock EXCEPT !["scan"] = FALSE]
          /\ running' = [running EXCEPT !["scan"] = @ - 1]
          /\ outcome' = [outcome EXCEPT !["scan"] = "ok"]
          /\ UNCHANGED thumb
  /\ status' = [status EXCEPT !["scan"] = Status("idle", "done")]
  /\ scan' = ScanIdle
  /\ baseline' = IF baseline.on /\ scan.full
                 THEN IF baseline.set
                      THEN NoBaseline(FALSE)
                      ELSE [on |-> TRUE, set |-> TRUE, cat |-> catalog,
                            start |-> scan.env, end |-> Env]
                 ELSE baseline
  /\ UNCHANGED <<fsVars, dbVars, dbMutex, booted, clean, thumbTails, trans, budget, lastReq,
                 pureVars>>

\* an exception that escapes the per-file handlers of the scan
ScanFault ==
  /\ scan.pc \in {"walk", "batch", "tail", "prune_commit", "finish"}
  /\ budget.faults > 0
  /\ dbMutex = "free"
  /\ budget' = [budget EXCEPT !.faults = @ - 1]
  /\ ScanExcept
  /\ UNCHANGED <<fsVars, dbVars, dbMutex, booted, clean, thumb, thumbTails, trans, lastReq, pureVars, baseline>>

\* ------------------------------------------------ starting a scan
\* POST /api/scan_videos; body is the request's JSON: "bad" cannot be read
scan_videos_route(body) ==
  /\ booted /\ ~lock["scan"] /\ budget.jobs > 0
  /\ budget' = [budget EXCEPT !.jobs = @ - 1]
  /\ IF body = "bad"
     THEN UNCHANGED <<lock, scan, running, outcome>>
     ELSE /\ lock' = [lock EXCEPT !["scan"] = TRUE]
          /\ StartScanThread(body = "full", TRUE)
  /\ UNCHANGED <<fsVars, dbVars, status, dbMutex, clean, thumb, thumbTails, trans,
                 booted, lastReq, pureVars, baseline>>

\* ------------------------------------------- _cleanup_library_task
CleanBegin ==
  /\ clean.pc = "start"
  /\ status' = [status EXCEPT !["clean"] = Status("cleaning", "start")]
  /\ clean' = [clean EXCEPT !.pc = "walk", !.dirs = <<RootDir>>]
  /\ UNCHANGED <<fsVars, dbVars, lock, dbMutex, booted, scan, thumb, thumbTails, trans,
                 running, outcome, budget, lastReq, pureVars, baseline>>

\* one directory of the cleanup's walk: its recognized files join the found set
CleanListDir ==
  /\ clean.pc = "walk" /\ clean.dirs # <<>>
  /\ LET listing == Listing(Head(clean.dirs))
     IN clean' = [clean EXCEPT
                    !.found = @ \cup {f \in SeqToSet(WalkFiles(listing)) : Recognized(f)},
                    !.dirs = WalkDirs(clean.dirs, listing)]
  /\ UNCHANGED <<fsVars, dbVars, lock, status, dbMutex, booted, scan, thumb, thumbTails,
                 trans, running, outcome, budget, lastReq, pureVars, baseline>>

CleanPruneSelect ==
  /\ clean.pc = "walk" /\ clean.dirs = <<>>
  /\ status' = [status EXCEPT !["clean"].msg = "pruning"]
  /\ LET del == PruneTargets(clean.found)
     IN IF del = {}
        THEN /\ clean' = [clean EXCEPT !.pc = "finish"]
             /\ UNCHANGED <<disk, optFile, thumbFile>>
        ELSE /\ clean' = [clean EXCEPT !.pc = "prune_commit", !.del = del,
                                       !.deleted = Cardinality(del)]
             /\ optFile' = PruneOptFiles(del)
             /\ thumbFile' = PruneThumbFiles(del)
             /\ disk' = PruneLocalFiles(del)
  /\ UNCHANGED <<fver, dbVars, lock, dbMutex, booted, scan, thumb, thumbTails,
                 trans, running, outcome, budget, lastReq, pureVars, baseline>>

CleanPruneCommitBegin ==
  /\ clean.pc = "prune_commit"
  /\ dbMutex = "free"
  /\ dbMutex' = "clean"
  /\ clean' = [clean EXCEPT !.pc = "pruning"]
  /\ UNCHANGED <<fsVars, dbVars, lock, status, booted, scan, thumb, thumbTails, trans,
                 running, outcome, budget, lastReq, pureVars, baseline>>

CleanPruneCommitEnd ==
  /\ clean.pc = "pruning"
  /\ dbMutex' = "free"
  /\ clean' = [clean EXCEPT !.pc = "finish", !.del = {}]
  /\ \/ /\ catalog' = PruneRows(catalog, clean.del)
        /\ members' = PruneMembers(members, clean.del)
        /\ UNCHANGED budget
     \/ /\ budget.faults > 0
        /\ budget' = [budget EXCEPT !.faults = @ - 1]
        /\ UNCHANGED dbVars
  /\ UNCHANGED <<fsVars, lock, status, booted, scan, thumb, thumbTails, trans, running, outcome,
                 lastReq, pureVars, baseline>>

CleanFinishKeepsStatus ==
  /\ clean.pc = "finish"
  /\ status' = status
  /\ lock' = [lock EXCEPT !["clean"] = FALSE]
  /\ running' = [running EXCEPT !["clean"] = @ - 1]
  /\ outcome' = [outcome EXCEPT !["clean"] = "ok"]
  /\ clean' = CleanIdle
  /\ UNCHANGED <<fsVars, dbVars, dbMutex, booted, scan, thumb, thumbTails, trans, budget,
                 lastReq, pureVars, baseline>>

CleanFinish ==
  /\ clean.pc = "finish"
  /\ status' = [status EXCEPT !["clean"] = Status("idle", "done")]
  /\ lock' = [lock EXCEPT !["clean"] = FALSE]
  /\ running' = [running EXCEPT !["clean"] = @ - 1]
  /\ outcome' = [outcome EXCEPT !["clean"] = "ok"]
  /\ clean' = CleanIdle
  /\ UNCHANGED <<fsVars, dbVars, dbMutex, booted, scan, thumb, thumbTails, trans, budget,
                 lastReq, pureVars, baseline>>

\* an exception that escapes _prune_missing_videos or the walk of the cleanup
CleanFault ==
  /\ clean.pc \in {"walk", "prune_commit", "finish"}
  /\ budget.faults > 0
  /\ dbMutex = "free"
  /\ budget' = [budget EXCEPT !.faults = @ - 1]
  /\ status' = [status EXCEPT !["clean"] = Status("error", "exc")]
  /\ lock' = [lock EXCEPT !["clean"] = FALSE]
  /\ running' = [running EXCEPT !["clean"] = @ - 1]
  /\ outcome' = [outcome EXCEPT !["clean"] = "exc"]
  /\ clean' = CleanIdle
  /\ UNCHANGED <<fsVars, dbVars, dbMutex, booted, scan, thumb, thumbTails, trans, lastReq, pureVars, baseline>>

\* POST /api/library/cleanup
cleanup_library_route ==
  /\ booted /\ ~lock["clean"] /\ budget.jobs > 0
  /\ budget' = [budget EXCEPT !.jobs = @ - 1]
  /\ lock' = [lock EXCEPT !["clean"] = TRUE]
  /\ status' = [status EXCEPT !["clean"] = Status("cleaning", "starting")]
  /\ StartCleanThread
  /\ UNCHANGED <<fsVars, dbVars, dbMutex, booted, scan, thumb, thumbTails, trans, lastReq, pureVars, baseline>>

\* ------------------------------------------------ the file system
\* a running scan sees the tree change under it
FsChanged(s) == IF s.pc # "idle" THEN [s EXCEPT !.quiet = FALSE] ELSE s

\* a trigger that would restart the scan it finds running
trigger_auto_scanRestarts ==
  /\ scan' = [ScanIdle EXCEPT !.pc = "start", !.chain = TRUE]
  /\ IF ~lock["scan"]
     THEN /\ lock' = [lock EXCEPT !["scan"] = TRUE]
          /\ running' = [running EXCEPT !["scan"] = @ + 1]
          /\ outcome' = [outcome EXCEPT !["scan"] = "run"]
     ELSE UNCHANGED <<lock, running, outcome>>

\* trigger_auto_scan: an incremental, chained scan if SCAN_LOCK is free
trigger_auto_scan ==
  IF ~lock["scan"]
  THEN /\ lock' = [lock EXCEPT !["scan"] = TRUE]
       /\ StartScanThread(FALSE, TRUE)
  ELSE /\ scan' = FsChanged(scan)
       /\ UNCHANGED <<lock, running, outcome>>

\* a file appears under the media root; LibraryEventHandler.on_created
CreateEntry(e) ==
  /\ booted /\ e \notin disk /\ budget.fs > 0
  /\ budget' = [budget EXCEPT !.fs = @ - 1]
  /\ disk' = disk \cup {e}
  /\ IF StartsWithDot(e)
     THEN /\ scan' = FsChanged(scan)
          /\ UNCHANGED <<lock, running, outcome>>
     ELSE trigger_auto_scan
  /\ UNCHANGED <<fver, optFile, thumbFile, dbVars, status, dbMutex, booted, clean, thumb,
                 thumbTails, trans, lastReq, pureVars, baseline>>

\* a file is renamed under the media root; LibraryEventHandler.on_moved
MoveEntry(src, dst) ==
  /\ booted /\ src \in disk /\ dst \notin disk /\ budget.fs > 0
  /\ budget' = [budget EXCEPT !.fs = @ - 1]
  /\ disk' = (disk \ {src}) \cup {dst}
  /\ fver' = [p \in MediaFiles |-> IF p = dst /\ src \in MediaFiles THEN fver[src] ELSE fver[p]]
  /\ trigger_auto_scan
  /\ UNCHANGED <<optFile, thumbFile, dbVars, status, dbMutex, booted, clean, thumb,
                 thumbTails, trans, lastReq, pureVars, baseline>>

\* a file disappears; LibraryEventHandler.on_deleted
DeleteEntry(e) ==
  /\ booted /\ e \in disk /\ budget.fs > 0
  /\ budget' = [budget EXCEPT !.fs = @ - 1]
  /\ disk' = disk \ {e}
  /\ scan' = FsChanged(scan)
  /\ IF ~lock["clean"]
     THEN /\ lock' = [lock EXCEPT !["clean"] = TRUE]
          /\ StartCleanThread
     ELSE UNCHANGED <<lock, clean, running, outcome>>
  /\ UNCHANGED <<fver, optFile, thumbFile, dbVars, status, dbMutex, booted, thumb,
                 thumbTails, trans, lastReq, pureVars, baseline>>

\* a file's content changes in place (no handler is registered for it)
ModifyFile(p) ==
  /\ booted /\ p \in disk /\ p \in MediaFiles /\ budget.fs > 0
  /\ budget' = [budget EXCEPT !.fs = @ - 1]
  /\ fver' = [fver EXCEPT ![p] = 1 - @]
  /\ scan' = FsChanged(scan)
  /\ UNCHANGED <<disk, optFile, thumbFile, dbVars, lock, status, dbMutex, booted, clean,
                 thumb, thumbTails, trans, running, outcome, lastReq, pureVars, baseline>>

\* ----------------------------------------- _generate_thumbnails_task
\* a video needs a thumbnail when its path is null or points to a missing file
NeedsThumb(r) ==
  /\ FileExt(r.path) \in video_extensions
  /\ \/ r.thumb = NULL
     \/ r.thumb = "auto" /\ ~ThumbExists(r.path)
     \/ r.thumb = "local" /\ Sidecar \notin disk
\* the rows of a set as a sequence in id order
RECURSIVE ById(_)
ById(rows) ==
  IF rows = {} THEN <<>>
  ELSE LET r == CHOOSE x \in rows : \A y \in rows : x.id <= y.id
       IN <<r>> \o ById(rows \ {r})

ThumbBegin ==
  /\ thumb.pc = "start"
  /\ status' = [status EXCEPT !["thumb"] = Status("generating", "found")]
  /\ thumb' = [thumb EXCEPT !.pc = "run", !.todo = ById({r \in Rows : NeedsThumb(r)})]
  /\ UNCHANGED <<fsVars, dbVars, lock, dbMutex, booted, scan, clean, thumbTails, trans,
                 running, outcome, budget, lastReq, pureVars, baseline>>

\* one video of the loop; ok is whether the frame extraction succeeds
ThumbOne(ok) ==
  /\ thumb.pc = "run" /\ thumb.todo # <<>>
  /\ LET v == Head(thumb.todo)
         t == [thumb EXCEPT !.todo = Tail(@)]
     IN IF ~Exists(v.path)
        THEN /\ ok
             /\ thumb' = t
             /\ UNCHANGED thumbFile
        ELSE IF ok
        THEN /\ thumbFile' = [thumbFile EXCEPT ![v.path] = TRUE]
             /\ thumb' = [t EXCEPT
                            !.objs = @ \cup {<<v, [v EXCEPT !.thumb = "auto"]>>},
                            !.generated = @ + 1,
                            !.made = @ \cup {v.id},
                            !.pc = IF (thumb.generated + 1) % BatchSize = 0
                                   THEN "batch" ELSE "run"]
        ELSE /\ dbMutex = "free"
             /\ thumb' = [t EXCEPT !.objs = {}]
             /\ UNCHANGED thumbFile
  /\ UNCHANGED <<disk, fver, optFile, dbVars, lock, status, dbMutex, booted, scan, clean,
                 thumbTails, trans, running, outcome, budget, lastReq, pureVars, baseline>>

ThumbCommitBegin ==
  /\ \/ thumb.pc = "run" /\ thumb.todo = <<>> /\ thumb.generated > 0
     \/ thumb.pc = "batch"
  /\ dbMutex = "free"
  /\ dbMutex' = "thumb"
  /\ thumb' = [thumb EXCEPT !.pc = IF thumb.pc = "batch" THEN "batching" ELSE "committing"]
  /\ UNCHANGED <<fsVars, dbVars, lock, status, booted, scan, clean, thumbTails, trans,
                 running, outcome, budget, lastReq, pureVars, baseline>>

\* the commit; a failing flush is caught by the task's outer handler
ThumbCommitEnd ==
  /\ thumb.pc \in {"batching", "committing"}
  /\ dbMutex' = "free"
  /\ IF Stale(catalog, thumb.objs)
     THEN /\ status' = [status EXCEPT !["thumb"] = Status("error", "exc")]
          /\ outcome' = [outcome EXCEPT !["thumb"] = "exc"]
          /\ thumb' = [thumb EXCEPT !.pc = "release", !.objs = {}]
          /\ UNCHANGED catalog
     ELSE /\ catalog' = FlushUpdates(catalog, thumb.objs)
          /\ thumb' = [thumb EXCEPT !.pc = IF thumb.pc = "batching" THEN "run" ELSE "release",
                                    !.objs = {}]
          /\ UNCHANGED <<status, outcome>>
  /\ UNCHANGED <<fsVars, members, lock, booted, scan, clean, thumbTails, trans, running,
                 budget, lastReq, pureVars, baseline>>

\* an exception that escapes the per-video handler
ThumbFault ==
  /\ thumb.pc = "run"
  /\ budget.faults > 0
  /\ dbMutex = "free"
  /\ budget' = [budget EXCEPT !.faults = @ - 1]
  /\ status' = [status EXCEPT !["thumb"] = Status("error", "exc")]
  /\ outcome' = [outcome EXCEPT !["thumb"] = "exc"]
  /\ thumb' = [thumb EXCEPT !.pc = "release", !.objs = {}]
  /\ UNCHANGED <<fsVars, dbVars, lock, dbMutex, booted, scan, clean, thumbTails, trans,
                 running, lastReq, pureVars, baseline>>

\* finally: thumbnail_generation_lock.release()
ThumbRelease ==
  /\ \/ thumb.pc = "release"
     \/ thumb.pc = "run" /\ thumb.todo = <<>> /\ thumb.generated = 0
  /\ thumbTails < MaxTails
  /\ lock' = [lock EXCEPT !["thumb"] = FALSE]
  /\ thumb' = ThumbIdle
  /\ thumbTails' = thumbTails + 1
  /\ outcome' = [outcome EXCEPT !["thumb"] = IF @ = "run" THEN "ok" ELSE @]
  /\ UNCHANGED <<fsVars, dbVars, status, dbMutex, booted, scan, clean, trans, running,
                 budget, lastReq, pureVars, baseline>>

\* finally, after the release: THUMBNAIL_STATUS.update({"status": "idle", ...})
ThumbTail ==
  /\ thumbTails > 0
  /\ thumbTails' = thumbTails - 1
  /\ status' = [status EXCEPT !["thumb"] = Status("idle", "done")]
  /\ running' = [running EXCEPT !["thumb"] = @ - 1]
  /\ UNCHANGED <<fsVars, dbVars, lock, dbMutex, booted, scan, clean, thumb, trans, outcome,
                 budget, lastReq, pureVars, baseline>>

\* POST /api/thumbnails/generate_missing
generate_missing_thumbnails_route ==
  /\ booted /\ ~lock["thumb"] /\ budget.jobs > 0
  /\ budget' = [budget EXCEPT !.jobs = @ - 1]
  /\ lock' = [lock EXCEPT !["thumb"] = TRUE]
  /\ status' = [status EXCEPT !["thumb"] = Status("starting", "init")]
  /\ StartThumbThread
  /\ UNCHANGED <<fsVars, dbVars, dbMutex, booted, scan, clean, thumbTails, trans, lastReq, pureVars, baseline>>

\* --------------------------------------------- _transcode_video_task
\* the except Exception branch, then finally
TransExcept ==
  /\ status' = [status EXCEPT !["trans"] = Status("error", "exc")]
  /\ lock' = [lock EXCEPT !["trans"] = FALSE]
  /\ running' = [running EXCEPT !["trans"] = @ - 1]
  /\ outcome' = [outcome EXCEPT !["trans"] = "exc"]
  /\ trans' = TransIdle

\* db.get_or_404, the status record, os.path.exists(output_path)
TransBegin ==
  /\ trans.pc = "start"
  /\ IF trans.vid \notin DOMAIN catalog
     THEN /\ dbMutex = "free"
          /\ TransExcept
     ELSE /\ status' = [status EXCEPT !["trans"] = Status("transcoding", "start")]
          /\ trans' = [trans EXCEPT !.obj = catalog[trans.vid],
                         !.pc = IF OptExists(catalog[trans.vid].path) THEN "link" ELSE "encode"]
          /\ UNCHANGED <<lock, running, outcome>>
  /\ UNCHANGED <<fsVars, dbVars, dbMutex, booted, scan, clean, thumb, thumbTails, budget,
                 lastReq, pureVars, baseline>>

\* subprocess.run(ffmpeg_cmd, check=True): out is what the run leaves at the
\* derived path; anything but a good file is a CalledProcessError
TransEncode(out) ==
  /\ trans.pc = "encode"
  /\ Exists(trans.obj.path) \/ out = "none"
  /\ optFile' = [optFile EXCEPT ![trans.obj.path] = out]
  /\ IF out = "good"
     THEN /\ trans' = [trans EXCEPT !.pc = "link"]
          /\ UNCHANGED <<status, lock, running, outcome>>
     ELSE /\ status' = [status EXCEPT !["trans"] = Status("error", "ffmpeg")]
          /\ lock' = [lock EXCEPT !["trans"] = FALSE]
          /\ running' = [running EXCEPT !["trans"] = @ - 1]
          /\ outcome' = [outcome EXCEPT !["trans"] = "tool"]
          /\ trans' = TransIdle
  /\ UNCHANGED <<disk, fver, thumbFile, dbVars, dbMutex, booted, scan, clean, thumb,
                 thumbTails, budget, lastReq, pureVars, baseline>>

\* video.transcoded_path = output_path; with DB_WRITE_LOCK:
TransCommitBegin ==
  /\ trans.pc = "link"
  /\ dbMutex = "free"
  /\ dbMutex' = "trans"
  /\ trans' = [trans EXCEPT !.pc = "committing"]
  /\ UNCHANGED <<fsVars, dbVars, lock, status, booted, scan, clean, thumb, thumbTails,
                 running, outcome, budget, lastReq, pureVars, baseline>>

\* the pointer the task records for the video
LinkedVideo(obj) == [obj EXCEPT !.trans = "opt"]

\* the commit, the idle status, the lock release
TransCommitEnd ==
  /\ trans.pc = "committing"
  /\ dbMutex' = "free"
  /\ LET objs == {<<trans.obj, LinkedVideo(trans.obj)>>}
     IN IF Stale(catalog, objs)
        THEN TransExcept /\ UNCHANGED catalog
        ELSE /\ catalog' = FlushUpdates(catalog, objs)
             /\ status' = [status EXCEPT !["trans"] = Status("idle", "done")]
             /\ lock' = [lock EXCEPT !["trans"] = FALSE]
             /\ running' = [running EXCEPT !["trans"] = @ - 1]
             /\ outcome' = [outcome EXCEPT !["trans"] = "ok"]
             /\ trans' = TransIdle
  /\ UNCHANGED <<fsVars, members, booted, scan, clean, thumb, thumbTails, budget, lastReq, pureVars, baseline>>

\* the ids a request may name, cataloged or not
RequestIds == 1..MaxRequestId

\* POST /api/video/<id>/transcode/start
start_transcode_route(vid) ==
  /\ booted /\ ~lock["trans"] /\ budget.jobs > 0
  /\ budget' = [budget EXCEPT !.jobs = @ - 1]
  /\ lock' = [lock EXCEPT !["trans"] = TRUE]
  /\ trans' = [TransIdle EXCEPT !.pc = "start", !.vid = vid]
  /\ running' = [running EXCEPT !["trans"] = @ + 1]
  /\ outcome' = [outcome EXCEPT !["trans"] = "run"]
  /\ UNCHANGED <<fsVars, dbVars, status, dbMutex, booted, scan, clean, thumb, thumbTails,
                 lastReq, pureVars, baseline>>

\* a start request of kind k that finds the lock held: 409, or 200 "already in
\* progress" for the thumbnails; the handler returns at once
BusyRouteResetsStatus(k) ==
  /\ booted /\ lock[k]
  /\ lastReq' = k
  /\ status' = [status EXCEPT ![k] = Status("starting", "init")]
  /\ UNCHANGED <<fsVars, dbVars, lock, dbMutex, booted, scan, clean, thumb,
                 thumbTails, trans, running, outcome, budget, pureVars, baseline>>

BusyRoute(k) ==
  /\ booted /\ lock[k]
  /\ lastReq' = k
  /\ UNCHANGED <<fsVars, dbVars, lock, status, dbMutex, booted, scan, clean, thumb,
                 thumbTails, trans, running, outcome, budget, pureVars, baseline>>

\* ------------------------------------------------------ user actions
UserCommit(id, row) ==
  /\ booted /\ id \in DOMAIN catalog /\ budget.user > 0
  /\ budget' = [budget EXCEPT !.user = @ - 1]
  /\ catalog' = [catalog EXCEPT ![id] = row]
  /\ UNCHANGED <<fsVars, members, lock, status, dbMutex, booted, scan, clean, thumb,
                 thumbTails, trans, running, outcome, lastReq, pureVars, baseline>>

\* POST /api/article/<id>/favorite
toggle_favorite(id) ==
  id \in DOMAIN catalog /\ UserCommit(id, [catalog[id] EXCEPT !.fav = ~@])

\* POST /api/article/<id>/bookmark
toggle_watch_later(id) ==
  id \in DOMAIN catalog /\ UserCommit(id, [catalog[id] EXCEPT !.wl = ~@])

\* a progress route that would record a report of any length
update_video_progressRecordsAny(id, duration_watched) ==
  /\ id \in DOMAIN catalog
  /\ UserCommit(id, [catalog[id] EXCEPT !.watched = duration_watched, !.lastw = "now"])

\* POST /api/video/<id>/progress
update_video_progress(id, duration_watched) ==
  /\ id \in DOMAIN catalog
  /\ duration_watched >= MinEngagement
  /\ UserCommit(id, [catalog[id] EXCEPT !.watched = duration_watched, !.lastw = "now"])

\* POST /api/video/<id>/set_tag
set_video_tag(id, tag) ==
  /\ id \in DOMAIN catalog
  /\ UserCommit(id, [catalog[id] EXCEPT
                       !.short = (tag = "short"),
                       !.vtype = CASE tag = "vr180" -> "VR180_SBS"
                                   [] tag = "vr360" -> "VR360"
                                   [] OTHER -> NULL])

\* set_video_tag as two requests served by two threads run it. call.reqs[i] is request
\* i; ret.val[i] is <<>> before its lookup, <<loaded>> after it, and <<loaded, object>>
\* once it has committed.
\* video = db.get_or_404(Video, video_id)
set_video_tag_get(i) ==
  /\ booted /\ call.fn = "set_video_tag"
  /\ ret.val[i] = <<>>
  /\ call.reqs[i].id \in DOMAIN catalog
  /\ ret' = [ret EXCEPT !.val[i] = <<catalog[call.reqs[i].id]>>]
  /\ UNCHANGED <<fsVars, dbVars, lock, status, dbMutex, booted, scan, clean, thumb,
                 thumbTails, trans, running, outcome, budget, lastReq, call, baseline>>

\* the assignments to video.is_short and video.video_type, then db.session.commit():
\* the UPDATE sets the columns whose value differs from the loaded one
set_video_tag_commit(i) ==
  /\ call.fn = "set_video_tag"
  /\ Len(ret.val[i]) = 1
  /\ LET tag == call.reqs[i].tag
         loaded == ret.val[i][1]
         obj == [loaded EXCEPT !.short = (tag = "short"),
                               !.vtype = CASE tag = "vr180" -> "VR180_SBS"
                                           [] tag = "vr360" -> "VR360"
                                           [] OTHER -> NULL]
     IN /\ catalog' =
             IF loaded.id \in DOMAIN catalog
             THEN [catalog EXCEPT ![loaded.id] =
                     [@ EXCEPT !.short = IF obj.short # loaded.short THEN obj.short ELSE @,
                               !.vtype = IF obj.vtype # loaded.vtype THEN obj.vtype ELSE @]]
             ELSE catalog
        /\ ret' = [done |-> \A j \in DOMAIN ret.val : j # i => Len(ret.val[j]) = 2,
                   val |-> [ret.val EXCEPT ![i] = <<loaded, obj>>]]
  /\ UNCHANGED <<fsVars, members, lock, status, dbMutex, booted, scan, clean, thumb,
                 thumbTails, trans, running, outcome, budget, lastReq, call, baseline>>

\* POST /api/playlist/toggle_video: neither id is looked up
toggle_video_in_playlist(pl, vid) ==
  /\ booted /\ budget.user > 0
  /\ budget' = [budget EXCEPT !.user = @ - 1]
  /\ members' = IF <<pl, vid>> \in members THEN members \ {<<pl, vid>>}
                ELSE members \cup {<<pl, vid>>}
  /\ UNCHANGED <<fsVars, catalog, lock, status, dbMutex, booted, scan, clean, thumb,
                 thumbTails, trans, running, outcome, lastReq, pureVars, baseline>>

\* ------------------------------------- the walk as a function of the tree
\* Here a file is the tuple of its path components below the media root and
\* a component is the tuple of its characters, so that what the code reads
\* from a name is computed from the name.
Chr ==
  [video |-> <<"a", ".", "m", "p", "4">>,
   image |-> <<"b", ".", "P", "N", "G">>,
   hidden |-> <<".", "c", ".", "m", "p", "4">>,
   other |-> <<"n", ".", "t", "x", "t">>,
   sentinel |-> <<"v", "d", "2", "1", "_", "h", "i", "d", "e">>,
   dir |-> <<"d">>,
   sub |-> <<"e">>,
   hiddenDir |-> <<".", "h">>]

\* the files a tree may hold
WalkUniverse ==
  { <<Chr.video>>, <<Chr.hidden>>, <<Chr.other>>, <<Chr.sentinel>>,
    <<Chr.dir, Chr.image>>, <<Chr.dir, Chr.sentinel>>,
    <<Chr.hiddenDir, Chr.video>>,
    <<Chr.dir, Chr.sub, Chr.video>>, <<Chr.dir, Chr.sub, Chr.sentinel>>,
    <<Chr.dir, Chr.hiddenDir, Chr.video>> }

\* str.lower(), on the letters that occur
LowerChar(c) ==
  CASE c = "A" -> "a" [] c = "B" -> "b" [] c = "C" -> "c" [] c = "D" -> "d"
    [] c = "G" -> "g" [] c = "N" -> "n" [] c = "O" -> "o" [] c = "P" -> "p"
    [] c = "T" -> "t" [] OTHER -> c
LowerName(n) == [i \in 1..Len(n) |-> LowerChar(n[i])]

\* os.path.splitext(name)[1]: from the last dot on, unless only dots precede it
SplitExt(n) ==
  LET dots == {i \in 1..Len(n) : n[i] = "."}
      last == IF dots = {} THEN 0 ELSE Max(dots)
  IN IF last > 0 /\ (\E i \in 1..(last - 1) : n[i] # ".")
     THEN SubSeq(n, last, Len(n)) ELSE <<>>

\* the extension as the string the code compares with its lists
ExtString(x) ==
  CASE x = <<".", "m", "k", "v">> -> ".mkv"
    [] x = <<".", "m", "p", "4">> -> ".mp4"
    [] x = <<".", "a", "v", "i">> -> ".avi"
    [] x = <<".", "m", "o", "v">> -> ".mov"
    [] x = <<".", "w", "m", "v">> -> ".wmv"
    [] x = <<".", "f", "l", "v">> -> ".flv"
    [] x = <<".", "w", "e", "b", "m">> -> ".webm"
    [] x = <<".", "j", "p", "g">> -> ".jpg"
    [] x = <<".", "j", "p", "e", "g">> -> ".jpeg"
    [] x = <<".", "p", "n", "g">> -> ".png"
    [] x = <<".", "t", "b", "n">> -> ".tbn"
    [] x = <<".", "g", "i", "f">> -> ".gif"
    [] x = <<".", "w", "e", "b", "p">> -> ".webp"
    [] x = <<".", "b", "m", "p">> -> ".bmp"
    [] x = <<".", "t", "i", "f", "f">> -> ".tiff"
    [] OTHER -> "other"

\* name.startswith('.')
NameStartsWithDot(n) == Len(n) > 0 /\ n[1] = "."

\* is_video or is_image, for a name that is not hidden
RecognizedName(n) ==
  LET file_ext == ExtString(LowerName(SplitExt(n)))
  IN file_ext \in video_extensions \/ file_ext \in image_extensions

\* filenames, as os.walk gives them for directory dir of the tree
TreeFiles(tree, dir) ==
  {f[Len(f)] : f \in {g \in tree : SubSeq(g, 1, Len(g) - 1) = dir}}
\* dirnames, as os.walk gives them for directory dir of the tree
TreeDirs(tree, dir) ==
  {f[Len(dir) + 1] : f \in {g \in tree : /\ Len(g) > Len(dir) + 1
                                         /\ SubSeq(g, 1, Len(dir)) = dir}}

\* dirnames when the sentinel only skipped the directory's own files
DescendedDirsPastSentinel(tree, dir) ==
  {d \in TreeDirs(tree, dir) : ~NameStartsWithDot(d)}

\* dirnames after the two assignments to dirnames[:]
DescendedDirs(tree, dir) ==
  IF Chr.sentinel \in TreeFiles(tree, dir) THEN {}
  ELSE {d \in TreeDirs(tree, dir) : ~NameStartsWithDot(d)}

\* the files of directory dir that reach found_video_paths
FoundInDir(tree, dir) ==
  IF Chr.sentinel \in TreeFiles(tree, dir) THEN {}
  ELSE {Append(dir, n) : n \in {m \in TreeFiles(tree, dir) :
                                  ~NameStartsWithDot(m) /\ RecognizedName(m)}}

\* found_video_paths after os.walk(dir, topdown=True)
RECURSIVE FoundUnder(_, _)
FoundUnder(tree, dir) ==
  FoundInDir(tree, dir) \cup
    UNION {FoundUnder(tree, Append(dir, d)) : d \in DescendedDirs(tree, dir)}

\* the walk is applied to the tree of the call
WalkTree ==
  /\ call.fn = "walk" /\ ~ret.done
  /\ ret' = Returned(FoundUnder(call.tree, <<>>))
  /\ UNCHANGED <<fsVars, dbVars, lock, status, dbMutex, booted, scan, clean, thumb,
                 thumbTails, trans, running, outcome, budget, lastReq, call, baseline>>

\* a cleanup walk that would keep the videos only
CleanupFoundInDirVideosOnly(tree, dir) ==
  IF Chr.sentinel \in TreeFiles(tree, dir) THEN {}
  ELSE {Append(dir, n) : n \in {m \in TreeFiles(tree, dir) :
          /\ ~NameStartsWithDot(m)
          /\ ExtString(LowerName(SplitExt(m))) \in video_extensions}}

\* the files of directory dir that reach found_video_paths in _cleanup_library_task
CleanupFoundInDir(tree, dir) ==
  IF Chr.sentinel \in TreeFiles(tree, dir) THEN {}
  ELSE {Append(dir, n) : n \in {m \in TreeFiles(tree, dir) :
          /\ ~NameStartsWithDot(m)
          /\ LET ext == ExtString(LowerName(SplitExt(m)))
             IN ext \in video_extensions \/ ext \in image_extensions}}

\* found_video_paths of _cleanup_library_task after its os.walk(dir, topdown=True)
RECURSIVE CleanupFoundUnder(_, _)
CleanupFoundUnder(tree, dir) ==
  CleanupFoundInDir(tree, dir) \cup
    UNION {CleanupFoundUnder(tree, Append(dir, d)) :
             d \in IF Chr.sentinel \in TreeFiles(tree, dir) THEN {}
                   ELSE {x \in TreeDirs(tree, dir) : ~NameStartsWithDot(x)}}

\* the walk of the cleanup is applied to the tree of the call
CleanupWalkTree ==
  /\ call.fn = "cleanup_walk" /\ ~ret.done
  /\ ret' = Returned(CleanupFoundUnder(call.tree, <<>>))
  /\ UNCHANGED <<fsVars, dbVars, lock, status, dbMutex, booted, scan, clean, thumb,
                 thumbTails, trans, running, outcome, budget, lastReq, call, baseline>>

\* ------------------------------------------- get_videos as a function
\* Here a text is the tuple of its characters, a nullable number is <<>> or
\* <<n>>, and the request carries the query-string parameters of /api/videos.
\* Rows of the Video table that may be stored together.
Library ==
  LET row == [id |-> 0, kind |-> "video", assoc |-> FALSE, fav |-> FALSE, wl |-> FALSE,
              watched |-> 0, lastw |-> <<>>, short |-> FALSE, vtype |-> NULL, trans |-> NULL,
              show |-> <<"A">>, title |-> <<"C", "a", "t">>, summary |-> <<>>,
              rel |-> <<"d">>, duration |-> <<700>>, aired |-> <<>>, uploaded |-> <<>>]
  IN { [row EXCEPT !.id = 1, !.fav = TRUE, !.short = TRUE, !.duration = <<30>>,
                   !.watched = 5, !.lastw = <<1>>, !.aired = <<2>>, !.uploaded = <<1>>],
       [row EXCEPT !.id = 2, !.fav = TRUE, !.wl = TRUE, !.vtype = "VR360",
                   !.show = <<"B">>, !.title = <<"c", "a", "t", "s">>,
                   !.rel = <<"d", "/", "e">>, !.uploaded = <<1>>],
       [row EXCEPT !.id = 3, !.vtype = "VR180_SBS", !.trans = "opt",
                   !.title = <<"D", "o", "g">>, !.summary = <<"c", "a", "t">>,
                   !.rel = <<"d", "x">>, !.watched = 4, !.lastw = <<2>>, !.aired = <<1>>],
       [row EXCEPT !.id = 4, !.fav = TRUE, !.short = TRUE, !.trans = "opt",
                   !.show = <<"C">>, !.title = <<"B", "a", "t">>, !.rel = <<>>,
                   !.duration = <<0>>, !.watched = 9, !.aired = <<2>>],
       [row EXCEPT !.id = 5, !.kind = "image", !.fav = TRUE, !.duration = <<>>],
       [row EXCEPT !.id = 6, !.kind = "image", !.assoc = TRUE, !.fav = TRUE,
                   !.short = TRUE, !.duration = <<>>] }

\* the smart_filters parameter: lists of rules as the page sends them
RuleLists ==
  LET author(v) == [type |-> "author", value |-> v]
      title(v) == [type |-> "title", value |-> v]
      duration(op, num, n) == [type |-> "duration", operator |-> op,
                               value |-> [num |-> num, n |-> n]]
  IN { <<>>,
       <<author(<<<<"A">>, <<"B">>>>), duration("gt", TRUE, 600)>>,
       <<author(<<<<"A">>>>), author(<<<<"C">>>>)>>,
       <<title(<<<<"C", "A", "T">>>>), title(<<<<"b", "a">>>>), author(<<>>)>>,
       <<duration("gt", TRUE, 10), duration("lt", TRUE, 650)>>,
       <<duration("gt", TRUE, 0)>>,
       <<duration("gt", FALSE, 0), duration("eq", TRUE, 30), title(<<>>)>> }

\* the requests: every view under every setting of the toggles, and the parameters of
\* the views that take some, with the other parameters at their defaults
Requests ==
  LET Toggle == {"normal", "hide", "solo"}
      Views == {"all", "favorites", "watchLater", "history", "shorts", "optimized", "VR180",
                "VR360", "author", "folder", "standard_playlist", "smart_playlist", "video"}
      SortOrders == {"aired_newest", "aired_oldest", "uploaded_newest", "uploaded_oldest",
                     "duration_longest", "duration_shortest"}
      q == [page |-> 1, viewType |-> "all", viewId |-> <<>>, viewAuthor |-> <<>>,
            searchQuery |-> <<>>, sortOrder |-> "aired_newest", filterShorts |-> "normal",
            filterVR |-> "normal", filterOptimized |-> "normal", showImages |-> FALSE,
            showThumbnails |-> FALSE, smart_filters |-> <<>>]
  IN {[q EXCEPT !.viewType = v, !.filterShorts = a, !.filterVR = b, !.filterOptimized = c,
                !.searchQuery = sq, !.sortOrder = so, !.viewId = <<"1">>,
                !.viewAuthor = <<"A">>] :
        v \in Views, a \in Toggle, b \in Toggle, c \in Toggle,
        sq \in {<<>>, <<"C", "A", "T">>}, so \in {"aired_newest", "duration_longest"}}
     \cup
     {[q EXCEPT !.viewType = v, !.viewId = id, !.viewAuthor = au, !.smart_filters = f,
                !.filterShorts = a] :
        v \in {"author", "folder", "standard_playlist", "smart_playlist", "video"},
        id \in {<<>>, <<"1">>, <<"2">>, <<"d">>}, au \in {<<>>, <<"B">>},
        f \in RuleLists, a \in Toggle}
     \cup
     {[q EXCEPT !.viewType = v, !.sortOrder = so, !.page = pg, !.showImages = si,
                !.showThumbnails = st, !.viewId = <<"1">>, !.viewAuthor = <<"A">>] :
        v \in Views, so \in SortOrders \cup {"newest"}, pg \in {1, 2},
        si \in BOOLEAN, st \in BOOLEAN}

\* column LIKE pattern: % matches any run of characters, _ any one character
RECURSIVE Like(_, _)
Like(text, pattern) ==
  IF pattern = <<>> THEN text = <<>>
  ELSE IF Head(pattern) = "%"
       THEN Like(text, Tail(pattern)) \/ (text # <<>> /\ Like(Tail(text), pattern))
       ELSE /\ text # <<>>
            /\ Head(pattern) = "_" \/ Head(pattern) = Head(text)
            /\ Like(Tail(text), Tail(pattern))
\* column.ilike(f"%{word}%"): lower(column) LIKE lower(pattern)
ILike(text, word) == Like(LowerName(text), <<"%">> \o LowerName(word) \o <<"%">>)

\* a media_type condition that would show every image once images are shown
MediaMatchEveryImage(r, q) == r.kind = "video" \/ (q.showImages /\ r.kind = "image")

\* the media_type condition of the base query
MediaMatch(r, q) ==
  \/ r.kind = "video"
  \/ /\ q.showImages
     /\ r.kind = "image"
     /\ q.showThumbnails \/ ~r.assoc

\* the ids a request parameter may name: an INTEGER column compared with a text
IdText(n) == IF n = 1 THEN <<"1">> ELSE IF n = 2 THEN <<"2">> ELSE <<"o">>

\* a smart playlist that would match nothing unless a rule yields a clause
SmartMatchNeedsClause(r, filters) ==
  LET Rules(t) == {i \in 1..Len(filters) : filters[i].type = t}
      author_values == UNION {SeqToSet(filters[i].value) : i \in Rules("author")}
      keyword_values == UNION {SeqToSet(filters[i].value) : i \in Rules("title")}
      Truthy(v) == ~v.num \/ v.n # 0
      Clause(i) == Truthy(filters[i].value) /\ filters[i].value.num
                   /\ filters[i].operator \in {"gt", "lt"}
  IN /\ author_values # {} \/ keyword_values # {} \/ \E i \in Rules("duration") : Clause(i)
     /\ author_values # {} => r.show \in author_values
     /\ keyword_values # {} => \E keyword \in keyword_values : ILike(r.title, keyword)
     /\ \A i \in Rules("duration") :
          Clause(i) =>
             /\ filters[i].operator = "gt"
                  => (r.duration # <<>> /\ r.duration[1] > filters[i].value.n)
             /\ filters[i].operator = "lt"
                  => (r.duration # <<>> /\ r.duration[1] < filters[i].value.n)

\* the clauses of a smart playlist's rules, AND-ed
SmartMatch(r, filters) ==
  LET Rules(t) == {i \in 1..Len(filters) : filters[i].type = t}
      author_values == UNION {SeqToSet(filters[i].value) : i \in Rules("author")}
      keyword_values == UNION {SeqToSet(filters[i].value) : i \in Rules("title")}
      Truthy(v) == ~v.num \/ v.n # 0
  IN /\ author_values # {} => r.show \in author_values
     /\ keyword_values # {} => \E keyword \in keyword_values : ILike(r.title, keyword)
     /\ \A i \in Rules("duration") :
          (Truthy(filters[i].value) /\ filters[i].value.num) =>
             /\ filters[i].operator = "gt"
                  => (r.duration # <<>> /\ r.duration[1] > filters[i].value.n)
             /\ filters[i].operator = "lt"
                  => (r.duration # <<>> /\ r.duration[1] < filters[i].value.n)

\* a membership lookup whose empty result would select every row
video_ids_queryOrAll(db, viewId) ==
  LET ids == {m[2] : m \in {x \in db.members : IdText(x[1]) = viewId}}
  IN IF ids = {} THEN {r.id : r \in db.rows} ELSE ids
\* the video ids of the playlist's items, or [-1] if it has none
video_ids_query(db, viewId) ==
  LET ids == {m[2] : m \in {x \in db.members : IdText(x[1]) = viewId}}
  IN IF ids = {} THEN {-1} ELSE ids

\* the condition of the selected view ("Handle Special Views")
ViewMatch(r, db, q) ==
  CASE q.viewType = "favorites" -> r.fav
    [] q.viewType = "watchLater" -> r.wl
    [] q.viewType = "history" -> r.watched >= 4
    [] q.viewType = "shorts" -> r.short
    [] q.viewType = "optimized" -> r.trans # NULL
    [] q.viewType = "VR180" -> r.vtype \in {"VR180_SBS", "VR180_TB"}
    [] q.viewType = "VR360" -> r.vtype = "VR360"
    [] q.viewType = "author" /\ q.viewAuthor # <<>> -> r.show = q.viewAuthor
    [] q.viewType = "folder" /\ q.viewId # <<>> ->
         r.rel = q.viewId \/ Like(r.rel, q.viewId \o <<"/", "%">>)
    [] q.viewType = "standard_playlist" /\ q.viewId # <<>> ->
         r.id \in video_ids_query(db, q.viewId)
    [] q.viewType = "smart_playlist" /\ q.viewId # <<>> -> SmartMatch(r, q.smart_filters)
    [] q.viewType = "video" /\ q.viewId # <<>> -> IdText(r.id) = q.viewId
    [] OTHER -> TRUE

\* global filters that would know solo only, and hide nothing
ToggleMatchNeverHides(r, q) ==
  \/ r.short /\ q.filterShorts = "solo" /\ q.viewType # "shorts"
  \/ r.vtype # NULL /\ q.filterVR = "solo" /\ q.viewType \notin {"VR180", "VR360"}
  \/ r.trans # NULL /\ q.filterOptimized = "solo" /\ q.viewType # "optimized"
  \/ /\ q.filterShorts = "solo" => q.viewType = "shorts"
     /\ q.filterVR = "solo" => q.viewType \in {"VR180", "VR360"}
     /\ q.filterOptimized = "solo" => q.viewType = "optimized"

\* a hide that would apply although a toggle is solo
ToggleMatchHidesUnderSolo(r, q) ==
  LET isShortsSolo == q.filterShorts = "solo" /\ q.viewType # "shorts"
      isVRSolo == q.filterVR = "solo" /\ q.viewType \notin {"VR180", "VR360"}
      isOptimizedSolo == q.filterOptimized = "solo" /\ q.viewType # "optimized"
  IN /\ (isShortsSolo \/ isVRSolo \/ isOptimizedSolo)
          => \/ isShortsSolo /\ r.short
             \/ isVRSolo /\ r.vtype # NULL
             \/ isOptimizedSolo /\ r.trans # NULL
     /\ (q.filterShorts = "hide" /\ q.viewType # "shorts") => ~r.short
     /\ (q.filterVR = "hide" /\ q.viewType \notin {"VR180", "VR360"}) => r.vtype = NULL
     /\ (q.filterOptimized = "hide" /\ q.viewType # "optimized") => r.trans = NULL

\* the global filters: the OR of the solo categories, or else every hide
ToggleMatch(r, q) ==
  LET isShortsSolo == q.filterShorts = "solo" /\ q.viewType # "shorts"
      isVRSolo == q.filterVR = "solo" /\ q.viewType \notin {"VR180", "VR360"}
      isOptimizedSolo == q.filterOptimized = "solo" /\ q.viewType # "optimized"
  IN IF isShortsSolo \/ isVRSolo \/ isOptimizedSolo
     THEN \/ isShortsSolo /\ r.short
          \/ isVRSolo /\ r.vtype # NULL
          \/ isOptimizedSolo /\ r.trans # NULL
     ELSE /\ (q.filterShorts = "hide" /\ q.viewType # "shorts") => ~r.short
          /\ (q.filterVR = "hide" /\ q.viewType \notin {"VR180", "VR360"}) => r.vtype = NULL
          /\ (q.filterOptimized = "hide" /\ q.viewType # "optimized") => r.trans = NULL

\* the search query, lowered, in the title, the summary or the show title
SearchMatch(r, q) ==
  q.searchQuery # <<>> =>
    \/ ILike(r.title, LowerName(q.searchQuery))
    \/ ILike(r.summary, LowerName(q.searchQuery))
    \/ ILike(r.show, LowerName(q.searchQuery))

\* the rows the query selects
Selected(db, q) ==
  {r \in db.rows : MediaMatch(r, q) /\ ViewMatch(r, db, q) /\ ToggleMatch(r, q)
                   /\ SearchMatch(r, q)}

\* an ORDER BY that would follow the requested key in the history view too
OrderByRequestedKey(a, b, q) ==
  LET col == CASE q.sortOrder \in {"uploaded_newest", "uploaded_oldest"} -> "uploaded"
               [] q.sortOrder \in {"duration_longest", "duration_shortest"} -> "duration"
               [] OTHER -> "aired"
  IN IF q.sortOrder \in {"aired_oldest", "uploaded_oldest", "duration_shortest"}
     THEN \/ a[col] = <<>> /\ b[col] # <<>>
          \/ a[col] # <<>> /\ b[col] # <<>> /\ a[col][1] < b[col][1]
     ELSE \/ a[col] # <<>> /\ b[col] = <<>>
          \/ a[col] # <<>> /\ b[col] # <<>> /\ a[col][1] > b[col][1]

\* ORDER BY: whether row a must come before row b
OrderBy(a, b, q) ==
  LET col == IF q.viewType = "history" THEN "lastw"
             ELSE CASE q.sortOrder \in {"uploaded_newest", "uploaded_oldest"} -> "uploaded"
                    [] q.sortOrder \in {"duration_longest", "duration_shortest"} -> "duration"
                    [] OTHER -> "aired"
      asc == q.viewType # "history" /\
             q.sortOrder \in {"aired_oldest", "uploaded_oldest", "duration_shortest"}
  IN IF asc
     THEN \/ a[col] = <<>> /\ b[col] # <<>>
          \/ a[col] # <<>> /\ b[col] # <<>> /\ a[col][1] < b[col][1]
     ELSE \/ a[col] # <<>> /\ b[col] = <<>>
          \/ a[col] # <<>> /\ b[col] # <<>> /\ a[col][1] > b[col][1]

\* the response: the ids of the page's rows in order, and the total; rows that the
\* ordering does not separate come in any order
get_videos ==
  /\ call.fn = "get_videos" /\ ~ret.done
  /\ IF /\ call.q.viewType = "smart_playlist" /\ call.q.viewId # <<>>
        /\ \A n \in call.db.smart : IdText(n) # call.q.viewId
     THEN ret' = Returned([error |-> TRUE, articles |-> <<>>, total_items |-> 0])
     ELSE LET sel == Selected(call.db, call.q)
              n == Cardinality(sel)
              whole == call.q.viewType \in {"standard_playlist", "video"}
              first == IF whole THEN 1 ELSE (call.q.page - 1) * per_page + 1
              last == IF whole \/ n < call.q.page * per_page THEN n
                      ELSE call.q.page * per_page
          IN \E s \in [1..n -> sel] :
               /\ \A i \in 1..n, j \in 1..n : i < j => s[i] # s[j] /\ ~OrderBy(s[j], s[i], call.q)
               /\ ret' = Returned([error |-> FALSE,
                                   articles |-> [k \in 1..(IF last < first THEN 0
                                                           ELSE last - first + 1) |->
                                                   s[first + k - 1].id],
                                   total_items |-> n])
  /\ UNCHANGED <<fsVars, dbVars, lock, status, dbMutex, booted, scan, clean, thumb,
                 thumbTails, trans, running, outcome, budget, lastReq, call, baseline>>

\* --------------------------------------- the probe of a video stream
\* Here a rotation entry of ffprobe's JSON is [ok, n]: ok when int(float(text))
\* succeeds, n its value; an absent entry reads as '0'.
\* rotation: the rotate tag, or when that gives 0 the rotation of the side data
Rotation(stream) ==
  LET tag == IF stream.tag.ok THEN stream.tag.n ELSE 0
  IN IF tag # 0 THEN tag
     ELSE IF stream.side.ok THEN stream.side.n ELSE 0

\* a probe that would swap the sides for any rotation
ffprobeSwapsWhenRotated(stream) ==
  LET swap == Rotation(stream) # 0
      effective_width == IF swap THEN stream.height ELSE stream.width
      effective_height == IF swap THEN stream.width ELSE stream.height
  IN [dimensions |-> <<effective_width, effective_height>>,
      is_short |-> effective_height > effective_width]

\* the effective width and height, as they go into the dimensions column, and is_short
ffprobe(stream) ==
  LET swap == Rotation(stream) \in {90, -90, 270, -270}
      effective_width == IF swap THEN stream.height ELSE stream.width
      effective_height == IF swap THEN stream.width ELSE stream.height
  IN [dimensions |-> <<effective_width, effective_height>>,
      is_short |-> effective_height > effective_width]

\* the probe is applied to the stream of the call
ProbeStream ==
  /\ call.fn = "ffprobe" /\ ~ret.done
  /\ ret' = Returned(ffprobe(call.stream))
  /\ UNCHANGED <<fsVars, dbVars, lock, status, dbMutex, booted, scan, clean, thumb,
                 thumbTails, trans, running, outcome, budget, lastReq, call, baseline>>

\* ----------------------------------------------------- specifications
ScanStep ==
  \/ ScanBegin \/ ScanListDir \/ ScanFile \/ ScanCommitBegin \/ ScanCommitEnd
  \/ ScanPruneSelect \/ ScanPruneCommitBegin \/ ScanPruneCommitEnd \/ ScanFinish
CleanStep ==
  \/ CleanBegin \/ CleanListDir \/ CleanPruneSelect \/ CleanPruneCommitBegin
  \/ CleanPruneCommitEnd \/ CleanFinish
ThumbStep ==
  \/ ThumbBegin \/ (\E ok \in BOOLEAN : ThumbOne(ok)) \/ ThumbCommitBegin \/ ThumbCommitEnd
  \/ ThumbRelease \/ ThumbTail
TransStep ==
  \/ TransBegin \/ (\E out \in {"good", "partial", "none"} : TransEncode(out))
  \/ TransCommitBegin \/ TransCommitEnd
JobStep == ScanStep \/ CleanStep \/ ThumbStep \/ TransStep

Fault == ScanFault \/ CleanFault \/ ThumbFault

StartRequest ==
  \/ \E body \in {"bad", "full", "new"} : scan_videos_route(body)
  \/ cleanup_library_route
  \/ generate_missing_thumbnails_route
  \/ \E vid \in RequestIds : start_transcode_route(vid)

BusyRequest == \E k \in Kinds : BusyRoute(k)

FsEvent ==
  \/ \E e \in Entries : CreateEntry(e) \/ DeleteEntry(e)
  \/ \E src \in MediaFiles \cup {Hidden}, dst \in MediaFiles \cup {Hidden} : MoveEntry(src, dst)
  \/ \E p \in MediaFiles : ModifyFile(p)

UserAction ==
  \/ \E id \in RequestIds : toggle_favorite(id) \/ toggle_watch_later(id)
  \/ \E id \in RequestIds, d \in {MinEngagement - 1, MinEngagement + 1} :
       update_video_progress(id, d)
  \/ \E id \in RequestIds, tag \in {"short", "vr180", "vr360", "none"} : set_video_tag(id, tag)
  \/ \E pl \in Playlists, vid \in RequestIds : toggle_video_in_playlist(pl, vid)

\* Job coordination: the four jobs, their start requests (accepted and
\* rejected), the notifications and the faults; no user action.
Init == InitWith(MaxFsOps, 0, MaxJobStarts, MaxFaults) /\ Unobserved
Next == InitializeDatabase \/ JobStep \/ Fault \/ StartRequest \/ BusyRequest \/ FsEvent
Spec == Init /\ [][Next]_vars

\* The same without the rejected requests, under the scheduler's fairness:
\* a thread that can take a step eventually takes one.
NextFair == InitializeDatabase \/ JobStep \/ Fault \/ StartRequest \/ FsEvent
Fairness ==
  /\ WF_vars(ScanStep \/ ScanFault)
  /\ WF_vars(CleanStep \/ CleanFault)
  /\ WF_vars(ThumbStep \/ ThumbFault)
  /\ WF_vars(TransStep)
SpecFair == Init /\ [][NextFair]_vars /\ Fairness

\* The catalog under scans, cleanups, the chained thumbnail job, file-system
\* changes and user actions.
InitCatalog ==
  InitWith(MaxFsOps, MaxUserOps, MaxJobStarts, 0) /\ Unobserved
NextCatalog ==
  \/ InitializeDatabase \/ ScanStep \/ CleanStep \/ ThumbStep
  \/ (\E body \in {"bad", "full", "new"} : scan_videos_route(body))
  \/ FsEvent \/ UserAction
SpecCatalog == InitCatalog /\ [][NextCatalog]_vars

\* Transcodes next to scans and cleanups.
InitTranscode ==
  InitWith(MaxFsOps, 0, MaxTransStarts, 0) /\ Unobserved
NextTranscode ==
  \/ InitializeDatabase \/ JobStep \/ FsEvent
  \/ (\E body \in {"bad", "full", "new"} : scan_videos_route(body))
  \/ (\E vid \in RequestIds : start_transcode_route(vid))
SpecTranscode == InitTranscode /\ [][NextTranscode]_vars

\* The found set of a walk, for every tree over WalkUniverse.
InitWalk ==
  /\ InitWith(0, 0, 0, 0)
  /\ catalog = EmptyFn
  /\ call \in {[fn |-> f, tree |-> t] : f \in {"walk", "cleanup_walk"},
                                        t \in SUBSET WalkUniverse}
  /\ ret = NoRet
  /\ baseline = NoBaseline(FALSE)
SpecWalk ==
  /\ InitWalk
  /\ [][WalkTree \/ CleanupWalkTree]_vars

\* The probe applied to a stream: its coded sides and its three rotation entries.
SpecProbe ==
  /\ InitWith(0, 0, 0, 0)
  /\ catalog = EmptyFn
  /\ call \in LET Entry == {[ok |-> TRUE, n |-> n] : n \in {0, 90, -90, 180, 270}}
                           \cup {[ok |-> FALSE, n |-> 0]}
               IN {[fn |-> "ffprobe",
                    stream |-> [width |-> w, height |-> h, tag |-> t, side |-> sd,
                                disposition |-> d]] :
                     w \in {0, 1080, 1920}, h \in {0, 1080, 1920},
                     t \in Entry, sd \in Entry, d \in Entry}
  /\ ret = NoRet
  /\ baseline = NoBaseline(FALSE)
  /\ [][ProbeStream]_vars

\* The query of /api/videos applied to a stored table, its playlists and a request.
SpecQuery ==
  /\ InitWith(0, 0, 0, 0)
  /\ catalog = EmptyFn
  /\ call \in {[fn |-> "get_videos", db |-> [rows |-> t, members |-> m[1], smart |-> m[2]],
                q |-> q] :
                 t \in {x \in SUBSET Library : Cardinality(x) <= MaxRows},
                 m \in {<<{}, {1}>>, <<{<<1, 1>>, <<1, 3>>, <<2, 4>>}, {1}>>,
                        <<{<<1, 4>>}, {}>>},
                 q \in Requests}
  /\ ret = NoRet
  /\ baseline = NoBaseline(FALSE)
  /\ [][get_videos]_vars

\* Two set-tag requests, served by two threads, on the catalog of an earlier run.
SpecTags ==
  /\ InitWith(0, 0, 0, 0)
  /\ call \in {[fn |-> "set_video_tag", reqs |-> <<[id |-> a, tag |-> s], [id |-> b, tag |-> t]>>] :
                 a \in RequestIds, b \in RequestIds,
                 s \in {"short", "vr180", "vr360", "none"},
                 t \in {"short", "vr180", "vr360", "none"}}
  /\ ret = [done |-> FALSE, val |-> <<<<>>, <<>>>>]
  /\ baseline = NoBaseline(FALSE)
  /\ [][\/ InitializeDatabase
        \/ \E i \in {1, 2} : set_video_tag_get(i) \/ set_video_tag_commit(i)]_vars

\* A video whose thumbnail is the image next to it: the image appears, full scans
\* catalog both, and files are deleted.
SpecSidecar ==
  /\ InitWith(MaxSidecarFsOps, 0, MaxJobStarts, 0)
  /\ call = NoCall
  /\ ret = NoRet
  /\ baseline = NoBaseline(FALSE)
  /\ [][\/ InitializeDatabase \/ ScanStep \/ CleanStep \/ ThumbStep
        \/ scan_videos_route("full")
        \/ CreateEntry(Sidecar)
        \/ \E e \in MediaFiles : DeleteEntry(e)]_vars

\* Two full scans of a fresh database, the first at startup and the second on request,
\* next to the notifications, the jobs they start and a user who marks favorites; the
\* first completed full scan is recorded in baseline.
SpecRescan ==
  /\ InitWith(MaxFsOps, MaxUserOps, MaxJobStarts, 0)
  /\ catalog = EmptyFn
  /\ call = NoCall
  /\ ret = NoRet
  /\ baseline = NoBaseline(TRUE)
  /\ [][\/ InitializeDatabase \/ ScanStep \/ CleanStep \/ ThumbStep
        \/ scan_videos_route("full")
        \/ FsEvent
        \/ \E id \in RequestIds : toggle_favorite(id)]_vars

\* ------------------------------------------------------ properties

\* C1: at every moment at most one job body of each kind (scan,
\* thumbnail-fill, transcode, cleanup) is executing.
C1_OneBodyPerKind == \A k \in Kinds : running[k] <= 1

\* the same for the three kinds whose body ends with the release of the lock
ExclusiveButThumbnails == \A k \in Kinds \ {"thumb"} : running[k] <= 1

\* C2: a start request for a kind whose lock is held is answered at once
\* and changes neither a status record nor a lock, and starts no thread.
C2_RejectedStartChangesNothing ==
  [][lastReq' # lastReq =>
       /\ lock[lastReq']
       /\ UNCHANGED <<status, lock, running, scan, clean, thumb, thumbTails, trans>>]_vars

\* a thumbnail request was turned away while the thumbnail job was generating
C2_Witness ==
  /\ lastReq = "thumb" /\ lock["thumb"] /\ running["thumb"] = 1
  /\ status["thumb"].phase = "generating"

\* C3: a held job lock is eventually released, whichever way the job ends.
C3_LockEventuallyReleased == \A k \in Kinds : lock[k] ~> ~lock[k]

\* a scan ended in its except branch and its lock is free again
C3_Witness ==
  /\ outcome["scan"] = "exc" /\ ~lock["scan"] /\ running["scan"] = 0
  /\ outcome["thumb"] = "ok" /\ ~lock["thumb"]

C5_EscapedExceptionEndsInError ==
  \A k \in Kinds :
    (outcome[k] = "exc" /\ running[k] = 0) =>
      (status[k] = Status("error", "exc") /\ ~lock[k])

\* the same for the three kinds that write their status before the release
ErrorStatusButThumbnails ==
  \A k \in Kinds \ {"thumb"} :
    (outcome[k] = "exc" /\ running[k] = 0) =>
      (status[k] = Status("error", "exc") /\ ~lock[k])

\* C6: no step of a scan changes the favorite flag, the watch-later flag,
\* the watch position, the last-watched timestamp or the content tag of a
\* row that is in the catalog before the step.
C6_ScanKeepsUserState ==
  [][ScanStep =>
       \A id \in DOMAIN catalog \cap DOMAIN catalog' :
         UserState(catalog'[id]) = UserState(catalog[id])]_vars

\* a scan has committed new metadata to a row whose user state a user action
\* had changed after the scan loaded it, and the user's value is still there
C6_Witness ==
  \E p \in scan.raced :
    LET id == scan.cache[p].id
    IN /\ id \in DOMAIN catalog
       /\ catalog[id].meta # scan.cache[p].meta
       /\ UserState(catalog[id]) # UserState(scan.cache[p])

\* C7: when a full scan that saw no outside change of the tree has pruned,
\* every row's source path is a file on disk and no playlist membership
\* references a row the scan pruned.
C7_FullScanLeavesNothingDangling ==
  (scan.pc = "finish" /\ scan.full /\ scan.quiet) =>
    /\ \A r \in Rows : r.path \in disk
    /\ \A m \in members : m[2] \notin scan.pruned

\* the first half of C7 alone
FullScanRowsOnDisk ==
  (scan.pc = "finish" /\ scan.full /\ scan.quiet) => \A r \in Rows : r.path \in disk

\* C8: every step that changes the catalog or the memberships is taken with
\* the write mutex held, and releases it.
C8_CommitsUnderWriteMutex ==
  [][(catalog' # catalog \/ members' # members) =>
       (dbMutex # "free" /\ dbMutex' = "free")]_vars

\* the same for the commits of the background jobs
JobCommitsUnderWriteMutex ==
  [][(JobStep /\ (catalog' # catalog \/ members' # members)) =>
       (dbMutex # "free" /\ dbMutex' = "free")]_vars

\* C9: the optimized-copy pointer of a row never names the output a failed
\* encoding left at the derived path.
C9_OnlySuccessfulOutputLinked ==
  \A r \in Rows : r.trans # NULL => optFile[r.path] # "partial"

\* C10 as stated: an incremental scan re-extracts no file it found cataloged and
\* changes no such row; a full scan re-extracts every file it found.
C10_EveryFoundFileReExtracted ==
  [][/\ scan'.full => scan'.found = scan'.extracted
     /\ ~scan'.full => scan'.extracted \cap DOMAIN scan'.cache = {}
     /\ (ScanStep /\ ~scan.full) =>
          \A p \in DOMAIN scan.cache :
            LET id == scan.cache[p].id
            IN (id \in DOMAIN catalog /\ catalog[id].path = p) =>
                 (id \in DOMAIN catalog' /\ catalog'[id] = catalog[id])]_vars

\* C10, amended: a full scan re-extracts every found file whose size and
\* modification time it could read; the incremental half as stated.
C10_ReadableFoundFileReExtracted ==
  [][/\ scan'.full => /\ scan'.found = scan'.extracted \cup scan'.statFailed
                      /\ scan'.extracted \cap scan'.statFailed = {}
     /\ ~scan'.full => scan'.extracted \cap DOMAIN scan'.cache = {}
     /\ (ScanStep /\ ~scan.full) =>
          \A p \in DOMAIN scan.cache :
            LET id == scan.cache[p].id
            IN (id \in DOMAIN catalog /\ catalog[id].path = p) =>
                 (id \in DOMAIN catalog' /\ catalog'[id] = catalog[id])]_vars

\* a full scan re-extracted a cataloged file and skipped one it could not read
C10_Witness ==
  /\ scan.full /\ scan.statFailed # {}
  /\ scan.extracted \cap DOMAIN scan.cache # {}
\* the directories on the way to a file, the media root first
Ancestors(f) == {SubSeq(f, 1, i) : i \in 0..(Len(f) - 1)}

\* C11: the found set of a walk is exactly the files of the tree with a
\* recognized extension that are not hidden, lie in no hidden directory, and
\* have no directory on their way that contains the hide sentinel.
C11_FoundSetIsTheVisibleMedia ==
  (call.fn = "walk" /\ ret.done) =>
    ret.val = {f \in call.tree :
             /\ RecognizedName(f[Len(f)])
             /\ \A i \in 1..Len(f) : ~NameStartsWithDot(f[i])
             /\ \A dir \in Ancestors(f) : Append(dir, Chr.sentinel) \notin call.tree}

\* a walk of a tree with a sentinel-marked directory above a media file, a
\* hidden directory, a hidden file and an upper-case extension
C11_Witness ==
  /\ call.fn = "walk" /\ ret.done
  /\ {<<Chr.dir, Chr.sentinel>>, <<Chr.dir, Chr.sub, Chr.video>>, <<Chr.hiddenDir, Chr.video>>,
      <<Chr.hidden>>, <<Chr.other>>, <<Chr.video>>} \subseteq call.tree
  /\ ret.val = {<<Chr.video>>}

\* C12: a full scan that completes after another full scan, with no file changed and no
\* user action since the first one completed, leaves the catalog as the first one left
\* it: the same rows and the same value in every field.
C12_SecondFullScanChangesNothing ==
  [][(ScanFinish /\ scan.full /\ baseline.set /\ baseline.end = Env)
       => catalog = baseline.cat]_vars

\* C12 (amended): the same, when no file changed and no user acted since the first of the
\* two scans started.
C12_RescanOfUnchangedFilesChangesNothing ==
  [][(ScanFinish /\ scan.full /\ baseline.set /\ baseline.start = Env)
       => catalog = baseline.cat]_vars

\* a second full scan is about to complete over files nobody touched, with rows in the catalog
C12_Witness ==
  /\ scan.full /\ scan.pc = "finish"
  /\ baseline.set /\ baseline.start = Env
  /\ scan.updated > 0
  /\ catalog = baseline.cat

\* C13: a scan that ends successfully starts a thumbnail job exactly when it was chained,
\* counted at least one added or updated row and found the thumbnail lock free; a scan
\* that ends in an exception starts none.
C13_ChainStartsThumbnailsIffCountedAndFree ==
  [][/\ (outcome["scan"] = "run" /\ outcome'["scan"] = "ok")
          => (running'["thumb"] = running["thumb"] + 1
                <=> (scan.chain /\ scan.added + scan.updated > 0 /\ ~lock["thumb"]))
     /\ (outcome["scan"] = "run" /\ outcome'["scan"] = "exc")
          => (running'["thumb"] = running["thumb"] /\ lock'["thumb"] = lock["thumb"])]_vars

\* a scan has ended successfully and its chain has started the thumbnail job: no request
\* has started any job
C13_Witness ==
  /\ outcome["scan"] = "ok" /\ outcome["thumb"] = "run"
  /\ thumb.pc = "start" /\ lock["thumb"]
  /\ budget.jobs = MaxJobStarts

\* what a notification that triggers does: with the scan lock free it takes the lock and
\* starts an incremental chained scan, otherwise it changes nothing the program holds
TriggerOutcome ==
  IF ~lock["scan"]
  THEN /\ lock' = [lock EXCEPT !["scan"] = TRUE]
       /\ scan' = [ScanIdle EXCEPT !.pc = "start", !.full = FALSE, !.chain = TRUE]
       /\ running' = [running EXCEPT !["scan"] = @ + 1]
       /\ UNCHANGED <<dbVars, status, dbMutex, clean, thumb, thumbTails, trans, lastReq>>
  ELSE /\ [scan' EXCEPT !.quiet = scan.quiet] = scan
       /\ UNCHANGED <<dbVars, lock, status, dbMutex, clean, thumb, thumbTails, trans,
                      running, outcome, lastReq>>

\* C14: the notification of a created or moved file starts an incremental chained scan
\* if the scan lock is free, and otherwise has no effect: nothing is queued and the
\* running scan is left as it was.
C14_FileNotificationTriggersScanIfFree ==
  [][(\/ \E e \in Entries : CreateEntry(e)
      \/ \E src \in Entries, dst \in Entries : MoveEntry(src, dst)) => TriggerOutcome]_vars

\* C14 (amended): the same for a moved file and for a created file whose name does not
\* start with a dot; the notification of a created file whose name starts with a dot
\* has no effect, whatever the scan lock.
C14_VisibleFileNotificationTriggersScanIfFree ==
  [][/\ (\/ \E e \in Entries : CreateEntry(e) /\ ~StartsWithDot(e)
         \/ \E src \in Entries, dst \in Entries : MoveEntry(src, dst)) => TriggerOutcome
     /\ (\E e \in Entries : CreateEntry(e) /\ StartsWithDot(e))
          => /\ [scan' EXCEPT !.quiet = scan.quiet] = scan
             /\ UNCHANGED <<dbVars, lock, status, dbMutex, clean, thumb, thumbTails, trans,
                            running, outcome, lastReq>>]_vars

\* a notification has started an incremental chained scan: no request has started a job
C14_Witness ==
  /\ scan.pc = "start" /\ ~scan.full /\ scan.chain /\ lock["scan"]
  /\ budget.fs < MaxFsOps /\ budget.jobs = MaxJobStarts

\* C15: the notification of a deleted file starts a cleanup job if the cleanup lock is
\* free and otherwise has no effect; no step of a cleanup job extracts metadata, and the
\* rows it leaves in the catalog are rows that were there, with every field as it was.
C15_DeletionStartsCleanupThatOnlyDeletes ==
  [][/\ (\E e \in Entries : DeleteEntry(e))
          => /\ [scan' EXCEPT !.quiet = scan.quiet] = scan
             /\ UNCHANGED <<dbVars, status, dbMutex, thumb, thumbTails, trans, lastReq>>
             /\ IF ~lock["clean"]
                THEN /\ lock' = [lock EXCEPT !["clean"] = TRUE]
                     /\ clean' = [CleanIdle EXCEPT !.pc = "start"]
                     /\ running' = [running EXCEPT !["clean"] = @ + 1]
                ELSE UNCHANGED <<lock, clean, running, outcome>>
     /\ (CleanStep \/ CleanFault)
          => /\ scan'.extracted = scan.extracted
             /\ \A i \in DOMAIN catalog' : i \in DOMAIN catalog /\ catalog'[i] = catalog[i]]_vars

\* a cleanup that a notification started has pruned a row: no request has started a job
C15_Witness ==
  /\ clean.pc = "finish" /\ clean.deleted > 0
  /\ budget.jobs = MaxJobStarts
  /\ \E p \in MediaFiles : p \notin disk /\ p \notin Paths(catalog)

\* C16: no two rows of the catalog have the same source path; the scan keeps it so by
\* never staging an INSERT for a path that has a row or that it has already staged.
C16_SourcePathIsUnique ==
  /\ \A i \in DOMAIN catalog, j \in DOMAIN catalog :
        catalog[i].path = catalog[j].path => i = j
  /\ ~Duplicate(catalog, scan.ins)

\* a full scan has gone over two cataloged files again and the catalog has two rows
C16_Witness ==
  /\ scan.pc = "finish" /\ scan.full /\ scan.updated = 2
  /\ Cardinality(DOMAIN catalog) = 2

\* C17: with each of the three toggles taken as normal when the view is its own category,
\* the response holds the rows of the same request with every toggle normal that are in
\* at least one solo category if some toggle is solo, and otherwise those that are in no
\* hidden category.
C17_TogglesSoloThenHide ==
  (call.fn = "get_videos" /\ ret.done /\ ~ret.val.error) =>
    LET q == call.q
        shorts == IF q.viewType = "shorts" THEN "normal" ELSE q.filterShorts
        vr == IF q.viewType \in {"VR180", "VR360"} THEN "normal" ELSE q.filterVR
        optimized == IF q.viewType = "optimized" THEN "normal" ELSE q.filterOptimized
        base == Selected(call.db, [q EXCEPT !.filterShorts = "normal", !.filterVR = "normal",
                                            !.filterOptimized = "normal"])
        In(r, toggle) == \/ toggle = shorts /\ r.short
                         \/ toggle = vr /\ r.vtype # NULL
                         \/ toggle = optimized /\ r.trans # NULL
        expected == IF "solo" \in {shorts, vr, optimized}
                    THEN {r \in base : In(r, "solo")}
                    ELSE {r \in base : ~In(r, "hide")}
    IN /\ ret.val.total_items = Cardinality(expected)
       /\ q.page = 1 => SeqToSet(ret.val.articles) = {r.id : r \in expected}

\* shorts are solo and optimized copies hidden: a short with an optimized copy is returned,
\* and a row that is no short is not
C17_Witness ==
  /\ call.fn = "get_videos" /\ ret.done /\ ~ret.val.error
  /\ call.q.viewType = "all" /\ call.q.filterShorts = "solo"
  /\ call.q.filterOptimized = "hide" /\ call.q.searchQuery = <<>>
  /\ \E r \in call.db.rows : r.id = 3
  /\ SeqToSet(ret.val.articles) = {4}

\* C18: the response to a request for the favorites view with filterShorts=hide holds no
\* row whose is_short flag is set, whatever the other toggles, the search string and the
\* sort key.
C18_FavoritesHideShorts ==
  (/\ call.fn = "get_videos" /\ ret.done /\ ~ret.val.error
   /\ call.q.viewType = "favorites" /\ call.q.filterShorts = "hide")
    => \A r \in call.db.rows : r.short => r.id \notin SeqToSet(ret.val.articles)

\* C18 (amended): the same when neither of the other two toggles is solo.
C18_FavoritesHideShortsWithoutSolo ==
  (/\ call.fn = "get_videos" /\ ret.done /\ ~ret.val.error
   /\ call.q.viewType = "favorites" /\ call.q.filterShorts = "hide"
   /\ call.q.filterVR # "solo" /\ call.q.filterOptimized # "solo")
    => \A r \in call.db.rows : r.short => r.id \notin SeqToSet(ret.val.articles)

\* of two favorites, the one that is a short is left out and the other is returned
C18_Witness ==
  /\ call.fn = "get_videos" /\ ret.done /\ ~ret.val.error
  /\ call.q.viewType = "favorites" /\ call.q.filterShorts = "hide"
  /\ call.q.filterVR = "normal" /\ call.q.filterOptimized = "hide"
  /\ {r.id : r \in call.db.rows} = {1, 2}
  /\ ret.val.articles = <<2>>

\* C19: the response to a smart-playlist request holds exactly the rows of the same
\* request without rules whose show is listed by some author rule (if any lists one),
\* whose title contains, whatever the case, a keyword of some title rule (if any gives
\* one), and whose duration is above the value of every "gt" duration rule and below
\* the value of every "lt" duration rule.
C19_SmartPlaylistRulesAnded ==
  (/\ call.fn = "get_videos" /\ ret.done /\ ~ret.val.error
   /\ call.q.viewType = "smart_playlist" /\ call.q.viewId # <<>>)
    => LET f == call.q.smart_filters
           Rules(t) == {f[i] : i \in {j \in 1..Len(f) : f[j].type = t}}
           authors == UNION {SeqToSet(x.value) : x \in Rules("author")}
           keywords == UNION {SeqToSet(x.value) : x \in Rules("title")}
           Contains(text, word) ==
             \E i \in 1..(Len(text) + 1) :
               /\ i + Len(word) - 1 <= Len(text)
               /\ \A k \in 1..Len(word) : LowerChar(text[i + k - 1]) = LowerChar(word[k])
           expected ==
             {r \in Selected(call.db, [call.q EXCEPT !.smart_filters = <<>>]) :
                /\ authors # {} => r.show \in authors
                /\ keywords # {} => \E w \in keywords : Contains(r.title, w)
                /\ \A x \in Rules("duration") :
                     x.value.num =>
                       /\ x.operator = "gt" => (r.duration # <<>> /\ r.duration[1] > x.value.n)
                       /\ x.operator = "lt" => (r.duration # <<>> /\ r.duration[1] < x.value.n)}
       IN SeqToSet(ret.val.articles) = {r.id : r \in expected}

\* C20: the response to a standard-playlist request that names a playlist holds only
\* rows that are items of that playlist, and holds none when the playlist has no item.
C20_StandardPlaylistOnlyMembers ==
  (/\ call.fn = "get_videos" /\ ret.done /\ ~ret.val.error
   /\ call.q.viewType = "standard_playlist" /\ call.q.viewId # <<>>)
    => LET items == {m \in call.db.members : IdText(m[1]) = call.q.viewId}
       IN /\ \A id \in SeqToSet(ret.val.articles) : \E m \in items : m[2] = id
          /\ items = {} => (ret.val.articles = <<>> /\ ret.val.total_items = 0)

\* of three stored rows, the two that are items of playlist 1 are returned
C20_Witness ==
  /\ call.fn = "get_videos" /\ ret.done /\ ~ret.val.error
  /\ call.q.viewType = "standard_playlist" /\ call.q.viewId = <<"1">>
  /\ call.q.filterShorts = "normal" /\ call.q.searchQuery = <<>>
  /\ {r.id : r \in call.db.rows} = {1, 2, 3}
  /\ SeqToSet(ret.val.articles) = {1, 3}

\* C21: whatever the view, a response to a request without showImages holds rows of
\* media type video only, and a response to a request with showImages and without
\* showThumbnails holds no image row whose is_associated_thumbnail flag is set.
C21_ImagesOnlyOnRequest ==
  (call.fn = "get_videos" /\ ret.done /\ ~ret.val.error) =>
    \A r \in call.db.rows :
      r.id \in SeqToSet(ret.val.articles) =>
        /\ ~call.q.showImages => r.kind = "video"
        /\ (call.q.showImages /\ ~call.q.showThumbnails) => ~(r.kind = "image" /\ r.assoc)

\* images are shown and thumbnail images are not: of a video, an image and a thumbnail
\* image, the first two are returned
C21_Witness ==
  /\ call.fn = "get_videos" /\ ret.done /\ ~ret.val.error
  /\ call.q.viewType = "favorites" /\ call.q.showImages /\ ~call.q.showThumbnails
  /\ call.q.page = 1
  /\ {r.id : r \in call.db.rows} = {1, 5, 6}
  /\ SeqToSet(ret.val.articles) = {1, 5}

\* C22: the rows of a response come in one order: by last_watched, descending with the
\* nulls last, in the history view whatever the sort key; in every other view by the
\* column of the requested key, descending with the nulls last for "newest" and
\* "longest" and ascending with the nulls first for "oldest" and "shortest"; and by
\* aired, descending with the nulls last, when the key is none of the six.
C22_OneOrderingPerView ==
  (call.fn = "get_videos" /\ ret.done /\ ~ret.val.error) =>
    LET q == call.q
        key == IF q.viewType = "history" THEN <<"lastw", "desc">>
               ELSE CASE q.sortOrder = "aired_oldest" -> <<"aired", "asc">>
                      [] q.sortOrder = "uploaded_newest" -> <<"uploaded", "desc">>
                      [] q.sortOrder = "uploaded_oldest" -> <<"uploaded", "asc">>
                      [] q.sortOrder = "duration_longest" -> <<"duration", "desc">>
                      [] q.sortOrder = "duration_shortest" -> <<"duration", "asc">>
                      [] OTHER -> <<"aired", "desc">>
        val(id) == (CHOOSE r \in call.db.rows : r.id = id)[key[1]]
        list == ret.val.articles
    IN \A i \in 1..Len(list), j \in 1..Len(list) :
         i < j =>
           LET x == val(list[i])
               y == val(list[j])
           IN IF key[2] = "desc"
              THEN (x = <<>> => y = <<>>) /\ ((x # <<>> /\ y # <<>>) => x[1] >= y[1])
              ELSE (y = <<>> => x = <<>>) /\ ((x # <<>> /\ y # <<>>) => x[1] <= y[1])

\* the history view asked for the shortest first: the rows come by last_watched, the
\* one never stamped last
C22_Witness ==
  /\ call.fn = "get_videos" /\ ret.done /\ ~ret.val.error
  /\ call.q.viewType = "history" /\ call.q.sortOrder = "duration_shortest"
  /\ ret.val.articles = <<3, 1, 4>>

\* C23: with the rotation hint read from the rotate tag or, when that gives none, from
\* the side data, the stored dimensions are the coded width and height, swapped exactly
\* when the hint is 90 or 270 either way, and is_short is set exactly when the second
\* exceeds the first; coded 1080x1920 gives 1920x1080 and no short under a hint of 90,
\* and a short under no rotation.
C23_SidesSwappedOnQuarterTurns ==
  (call.fn = "ffprobe" /\ ret.done) =>
    LET st == call.stream
        hint == IF st.tag.ok /\ st.tag.n # 0 THEN st.tag.n
                ELSE IF st.side.ok THEN st.side.n ELSE 0
        quarter == hint \in {90, -90, 270, -270}
        dim == ret.val.dimensions
    IN /\ quarter => dim = <<st.height, st.width>>
       /\ ~quarter => dim = <<st.width, st.height>>
       /\ ret.val.is_short <=> dim[2] > dim[1]
       /\ (st.width = 1080 /\ st.height = 1920 /\ hint = 90)
            => (dim = <<1920, 1080>> /\ ~ret.val.is_short)
       /\ (st.width = 1080 /\ st.height = 1920 /\ hint = 0) => ret.val.is_short

\* a stream coded 1080x1920 whose side data turns it by -90 is stored as 1920x1080
C23_Witness ==
  /\ call.fn = "ffprobe" /\ ret.done
  /\ call.stream.width = 1080 /\ call.stream.height = 1920
  /\ call.stream.tag.n = 0 /\ call.stream.side = [ok |-> TRUE, n |-> -90]
  /\ ret.val = [dimensions |-> <<1920, 1080>>, is_short |-> FALSE]

\* C28: the rotation that decides the swap is the first non-zero value among the rotate
\* tag, the rotation of the side data and the rotate flag of the disposition, in this
\* order; a stream whose only hint is a disposition flag of 90 or 270 is swapped.
C28_RotationFromThreeSources ==
  (call.fn = "ffprobe" /\ ret.done) =>
    LET st == call.stream
        Value(e) == IF e.ok THEN e.n ELSE 0
        rotation == IF Value(st.tag) # 0 THEN Value(st.tag)
                    ELSE IF Value(st.side) # 0 THEN Value(st.side)
                    ELSE Value(st.disposition)
    IN ret.val.dimensions = IF rotation \in {90, -90, 270, -270}
                            THEN <<st.height, st.width>>
                            ELSE <<st.width, st.height>>

\* C24: a step that removes a row from the catalog leaves no playlist membership of the
\* row, no optimized copy and no automatic thumbnail at the locations derived from the
\* row's source path.
C24_PruneTakesMembershipsAndDerivedFiles ==
  [][\A i \in DOMAIN catalog \ DOMAIN catalog' :
       /\ \A m \in members' : m[2] # i
       /\ optFile'[catalog[i].path] = "none"
       /\ ~thumbFile'[catalog[i].path]]_vars

\* C25: when the thumbnail job ends normally, every row still in the catalog whose frame
\* the run extracted and wrote has its thumbnail path recorded, also when the extraction
\* of another item of the same run failed.
C25_ExtractedThumbnailsAreRecorded ==
  [][(ThumbRelease /\ outcome["thumb"] = "run")
       => \A i \in thumb.made \cap DOMAIN catalog : catalog[i].thumb = "auto"]_vars

\* C26: in a full scan, the upsert of a file that is already cataloged leaves the row's
\* object with the freshly extracted values, both in the fields the insert branch alone
\* extracts (byte size, dimensions, codec, ...) and in title and duration.
C26_FullScanRefreshesExistingRow ==
  [][(ScanFile /\ scan.full)
       => \A p \in DOMAIN scan'.upd \ DOMAIN scan.upd :
            scan'.upd[p].tech = fver[p] /\ scan'.upd[p].meta = fver[p]]_vars

\* C27: a listed file whose size and modification time cannot be read is skipped without
\* failing the scan: nothing is staged for it, the walk goes on with the remaining files,
\* the status is untouched, the path counts as found, and the prune of the same scan
\* does not select a row of such a path.
C27_UnreadableFileSkippedNotPruned ==
  [][/\ ScanFile =>
          LET f == Head(scan.todo)
          IN (Recognized(f) /\ ~SkipKnown(scan, f) /\ ~Exists(f)) =>
               /\ f \in scan'.found
               /\ scan'.todo = Tail(scan.todo) /\ scan'.pc = "walk"
               /\ scan'.ins = scan.ins /\ scan'.upd = scan.upd
               /\ status' = status /\ outcome' = outcome
     /\ ScanPruneSelect => \A r \in scan'.del : r.path \notin scan.statFailed]_vars

\* a full scan is about to end idle after it skipped an unreadable file whose row is
\* still in the catalog
C27_Witness ==
  /\ scan.pc = "finish" /\ scan.full
  /\ \E p \in scan.statFailed : p \in Paths(catalog)

\* C29: the count that pruning returns is the number of rows its commit removed from
\* the catalog, and 0 when the deletions were rolled back.
C29_PruneCountIsRowsRemoved ==
  [][/\ CleanPruneCommitEnd
          => clean'.deleted = Cardinality(DOMAIN catalog \ DOMAIN catalog')
     /\ ScanPruneCommitEnd
          => scan'.deleted = Cardinality(DOMAIN catalog \ DOMAIN catalog')]_vars

\* C30: the response to a request for an existing smart playlist whose rule list is
\* empty, or holds only rules that yield no clause (no value, a duration that is not a
\* number or is 0, an operator other than gt and lt), counts the rows of the same
\* request for the base view and lists them, all of them on a first page that can hold
\* them, in an order of that view.
C30_SmartPlaylistWithoutClauseIsBaseView ==
  (/\ call.fn = "get_videos" /\ ret.done /\ ~ret.val.error
   /\ call.q.viewType = "smart_playlist" /\ call.q.viewId # <<>>
   /\ \A i \in 1..Len(call.q.smart_filters) :
        LET f == call.q.smart_filters[i]
        IN IF f.type = "duration"
           THEN ~f.value.num \/ f.value.n = 0 \/ f.operator \notin {"gt", "lt"}
           ELSE f.value = <<>>)
    => LET base == [call.q EXCEPT !.viewType = "all"]
           a == ret.val.articles
           Row(id) == CHOOSE r \in call.db.rows : r.id = id
           ids == {r.id : r \in Selected(call.db, base)}
       IN /\ ret.val.total_items = Cardinality(ids)
          /\ SeqToSet(a) \subseteq ids
          /\ (call.q.page = 1 /\ Cardinality(ids) <= per_page) => SeqToSet(a) = ids
          /\ \A i \in 1..Len(a), j \in 1..Len(a) :
               i < j => ~OrderBy(Row(a[j]), Row(a[i]), base)

\* a smart playlist whose three rules yield no clause returns, under the solo toggle of
\* shorts, the rows of the base view
C30_Witness ==
  /\ call.fn = "get_videos" /\ ret.done /\ ~ret.val.error
  /\ call.q.viewType = "smart_playlist" /\ call.q.viewId = <<"1">>
  /\ Len(call.q.smart_filters) = 3
  /\ \A i \in 1..3 : call.q.smart_filters[i].type \in {"duration", "title"}
  /\ call.q.filterShorts = "solo"
  /\ Cardinality(call.db.rows) = 3
  /\ Len(ret.val.articles) >= 1
  /\ SeqToSet(ret.val.articles)
       = {r.id : r \in Selected(call.db, [call.q EXCEPT !.viewType = "all"])}

\* C31: a row is in the history view exactly when a progress report of at least
\* MinEngagement seconds was recorded for it: a new row is outside the view and has no
\* last-watched time, and a step that changes a row's watch position, its last-watched
\* time or its place in the view records a position of at least MinEngagement seconds
\* and puts the row in the view; shorter reports change nothing.
C31_HistoryIffEngagedReport ==
  [][\A i \in DOMAIN catalog' :
       LET InHistory(r) == ViewMatch(r, <<>>, [viewType |-> "history"])
           new == catalog'[i]
       IN IF i \in DOMAIN catalog
          THEN (\/ new.watched # catalog[i].watched
                \/ new.lastw # catalog[i].lastw
                \/ InHistory(new) # InHistory(catalog[i]))
                 => /\ new.watched >= MinEngagement /\ new.lastw = "now"
                    /\ InHistory(new)
          ELSE ~InHistory(new) /\ new.lastw = NULL]_vars

\* one row is in the history view after a report, next to a row that is not
C31_Witness ==
  \E i \in DOMAIN catalog, j \in DOMAIN catalog :
    /\ catalog[i].watched = MinEngagement + 1 /\ catalog[i].lastw = "now"
    /\ catalog[j].watched = 0 /\ catalog[j].lastw = NULL

\* C32: pruning, in a full scan or in the cleanup, removes no file under the media
\* root; an image next to a video, used as the video's thumbnail, survives the pruning
\* of the video's row.
C32_PruneKeepsMediaRootFiles ==
  [][(ScanPruneSelect \/ CleanPruneSelect) => disk' = disk]_vars

\* C33: a prune, of the cleanup or of a full scan, removes a row only if the row's
\* source file is absent from the disk when the row is removed.
C33_PrunedRowHasNoFile ==
  [][\A i \in DOMAIN catalog \ DOMAIN catalog' : ~Exists(catalog[i].path)]_vars

\* C34: while a thumbnail job holds the lock and the status it has set is starting or
\* generating, no step of another thread sets the thumbnail status to idle.
C34_RunningThumbnailStatusNotReset ==
  [][(/\ lock["thumb"] /\ lock'["thumb"]
      /\ thumb.pc \notin {"idle", "start"}
      /\ status["thumb"].phase \in {"starting", "generating"})
       => status'["thumb"].phase # "idle"]_vars

\* C35: once every job is idle again (no lock held, no job thread left), a visible
\* media file whose creation was notified, and which is on disk, is in the catalog;
\* here the file is the image that appears next to /v/a.mp4.
C35_NotifiedFileCatalogedWhenIdle ==
  (/\ booted /\ Sidecar \in disk
   /\ \A k \in Kinds : ~lock[k] /\ running[k] = 0)
    => Sidecar \in Paths(catalog)

\* C36: no row of the catalog has is_short set together with a content tag.
C36_ShortAndContentTagExclusive ==
  \A r \in Rows : ~(r.short /\ r.vtype # NULL)

\* C37: every playlist membership references a row of the catalog. (A membership
\* occurs once per playlist and item: members is a set, as the unique constraint
\* of PlaylistItem makes the table.)
C37_MembershipReferencesRow ==
  \A m \in members : m[2] \in DOMAIN catalog

\* C38: for every tree, the found set of the cleanup's walk is the found set of the
\* scan's walk of the same tree, so that the files missing from the one are the files
\* missing from the other and the prune, given either set, selects the same rows.
C38_CleanupFindsWhatScanFinds ==
  (call.fn = "cleanup_walk" /\ ret.done) =>
    /\ ret.val = FoundUnder(call.tree, <<>>)
    /\ call.tree \ ret.val = call.tree \ FoundUnder(call.tree, <<>>)

\* a cleanup walk of a tree with a video, an image in a directory, a hidden file and a
\* sentinel-marked sub-directory finds the video and the image
C38_Witness ==
  /\ call.fn = "cleanup_walk" /\ ret.done
  /\ {<<Chr.video>>, <<Chr.dir, Chr.image>>, <<Chr.hidden>>, <<Chr.dir, Chr.sub, Chr.video>>,
      <<Chr.dir, Chr.sub, Chr.sentinel>>} \subseteq call.tree
  /\ <<Chr.dir, Chr.sentinel>> \notin call.tree /\ <<Chr.sentinel>> \notin call.tree
  /\ ret.val = {<<Chr.video>>, <<Chr.dir, Chr.image>>}

====
